---- MODULE Spec2Model ----
(***************************************************************************)
(* Model of the scheduling service of gianged/shift-scheduler: the job     *)
(* store, the typed job state machine, process_job, startup recovery, the  *)
(* retry sweep, the circuit breaker with its health loop, and the greedy   *)
(* schedule generator.                                                     *)
(*                                                                         *)
(* Dates are day numbers; day d is a Monday iff d % 7 = 0.  Uuids are      *)
(* small naturals.  Instants are ticks of the variable now.                *)
(***************************************************************************)
EXTENDS Integers, Sequences, FiniteSets, Bags, TLC

\* ------------------------------------------------------------------------
\* Program constants
\* ------------------------------------------------------------------------
PERIOD_DAYS == 28
DAYS_PER_WEEK == 7
MAX_RETRIES == 3
failure_threshold == 2
cooldown_secs == 1

\* ------------------------------------------------------------------------
\* Bounds of the model
\* ------------------------------------------------------------------------
MaxJobs == 2
EngineJobs == 1
MaxTasks == 2
MaxTime == 1
MaxFailures == 3
MaxRows == 56
MaxBreakerTime == 4
MaxStreak == 5
MaxStaff == 3
MaxDayOffs == 3
MaxDiff == 1
MaxCallers == 2

\* ------------------------------------------------------------------------
\* Option<T>
\* ------------------------------------------------------------------------
Some(v) == [some |-> TRUE, v |-> v]
None == [some |-> FALSE, v |-> 0]

\* ------------------------------------------------------------------------
\* Scheduling configuration and rules (domain/scheduler.rs)
\* ------------------------------------------------------------------------
DefaultConfig ==
    [ min_day_off_per_week |-> Some(1),
      max_day_off_per_week |-> Some(2),
      no_morning_after_evening |-> TRUE,
      max_daily_shift_diff |-> Some(1) ]

\* A configuration that validate() accepts and under which a non-empty
\* roster has no feasible schedule (no Morning/Evening imbalance allowed).
StrictBalanceConfig == [DefaultConfig EXCEPT !.max_daily_shift_diff = Some(0)]

\* SchedulingConfig::validate: Ok or Err(Invalid)
validate(cfg) ==
    (cfg.min_day_off_per_week.some /\ cfg.max_day_off_per_week.some)
       => /\ cfg.min_day_off_per_week.v <= cfg.max_day_off_per_week.v
          /\ cfg.max_day_off_per_week.v < DAYS_PER_WEEK

build_rules(cfg) ==
    (IF cfg.no_morning_after_evening
        THEN << [name |-> "no_morning_after_evening", p |-> 0] >> ELSE << >>)
    \o (IF cfg.max_day_off_per_week.some
        THEN << [name |-> "max_day_off", p |-> cfg.max_day_off_per_week.v] >> ELSE << >>)
    \o (IF cfg.min_day_off_per_week.some
        THEN << [name |-> "min_day_off", p |-> cfg.min_day_off_per_week.v] >> ELSE << >>)
    \o (IF cfg.max_daily_shift_diff.some
        THEN << [name |-> "daily_balance", p |-> cfg.max_daily_shift_diff.v] >> ELSE << >>)

abs_diff(a, b) == IF a >= b THEN a - b ELSE b - a

NoMorningAfterEveningRule(ctx, candidate) ==
    ~(ctx.previous_shift.some /\ ctx.previous_shift.v = "Evening" /\ candidate = "Morning")

MaxDayOffRule(max, ctx, candidate) ==
    IF candidate # "DayOff" THEN TRUE ELSE ctx.day_offs_this_week < max

\* Variant of MinDayOffRule that counts the current day as still remaining
MinDayOffRuleCountsToday(min, ctx, candidate) ==
    IF candidate = "DayOff" THEN TRUE
    ELSE ctx.day_offs_this_week + ctx.days_remaining_in_week + 1 >= min

MinDayOffRule(min, ctx, candidate) ==
    IF candidate = "DayOff" THEN TRUE
    ELSE ctx.day_offs_this_week + ctx.days_remaining_in_week >= min

\* Variant of DailyBalanceRule that compares the counts before the candidate
\* is added
DailyBalanceRuleBeforeCandidate(max_diff, ctx, candidate) ==
    IF candidate = "DayOff" THEN TRUE
    ELSE abs_diff(ctx.morning_count, ctx.evening_count) <= max_diff

DailyBalanceRule(max_diff, ctx, candidate) ==
    IF candidate = "DayOff" THEN TRUE
    ELSE LET m == IF candidate = "Morning" THEN ctx.morning_count + 1 ELSE ctx.morning_count
             e == IF candidate = "Evening" THEN ctx.evening_count + 1 ELSE ctx.evening_count
         IN abs_diff(m, e) <= max_diff

is_valid(rule, ctx, candidate) ==
    CASE rule.name = "no_morning_after_evening" -> NoMorningAfterEveningRule(ctx, candidate)
      [] rule.name = "max_day_off" -> MaxDayOffRule(rule.p, ctx, candidate)
      [] rule.name = "min_day_off" -> MinDayOffRule(rule.p, ctx, candidate)
      [] rule.name = "daily_balance" -> DailyBalanceRule(rule.p, ctx, candidate)

\* rules.iter().all(|rule| rule.is_valid(&ctx, shift))
AllRulesOk(rules, ctx, candidate) ==
    \A r \in 1..Len(rules) : is_valid(rules[r], ctx, candidate)

\* Variant of shift_options that tries DayOff before the second working shift
shift_options_day_off_second(day) ==
    IF day % 2 = 0 THEN << "Morning", "DayOff", "Evening" >>
                   ELSE << "Evening", "DayOff", "Morning" >>

shift_options(day) ==
    IF day % 2 = 0 THEN << "Morning", "Evening", "DayOff" >>
                   ELSE << "Evening", "Morning", "DayOff" >>

\* Staff indices are 1-based here; forward = 1..n, reverse = n..1.
staff_order(day, n) ==
    IF day % 2 = 0 THEN [k \in 1..n |-> k] ELSE [k \in 1..n |-> n + 1 - k]

\* The body of `for shift in &shift_options`: the first candidate all rules
\* accept, or 0 when there is none.
FirstValidShift(rules, ctx, opts) ==
    IF AllRulesOk(rules, ctx, opts[1]) THEN 1
    ELSE IF AllRulesOk(rules, ctx, opts[2]) THEN 2
    ELSE IF AllRulesOk(rules, ctx, opts[3]) THEN 3
    ELSE 0

\* Variant of AssignStaff whose shift preference depends on the id value
AssignStaffByIdValue(st, i, day, staff_ids, period_begin_date, rules) ==
    LET opts == shift_options(day + staff_ids[i])
        ctx == [ previous_shift |-> st.previous_shifts[i],
                 day_offs_this_week |-> st.weekly_day_offs[i],
                 days_remaining_in_week |-> DAYS_PER_WEEK - 1 - (day % DAYS_PER_WEEK),
                 morning_count |-> st.morning_count,
                 evening_count |-> st.evening_count ]
        c == FirstValidShift(rules, ctx, opts)
    IN IF c = 0
       THEN [st EXCEPT !.err = Some([staff_id |-> staff_ids[i], day |-> day])]
       ELSE [st EXCEPT
               !.weekly_day_offs[i] = IF opts[c] = "DayOff" THEN @ + 1 ELSE @,
               !.morning_count = IF opts[c] = "Morning" THEN @ + 1 ELSE @,
               !.evening_count = IF opts[c] = "Evening" THEN @ + 1 ELSE @,
               !.previous_shifts[i] = Some(opts[c]),
               !.assignments = Append(@, [ staff_id |-> staff_ids[i],
                                            date |-> period_begin_date + day,
                                            shift_type |-> opts[c] ])]

\* Variant of AssignStaff that pushes no assignment for a day off
AssignStaffSkipsDayOff(st, i, day, staff_ids, period_begin_date, rules) ==
    LET opts == shift_options(day)
        ctx == [ previous_shift |-> st.previous_shifts[i],
                 day_offs_this_week |-> st.weekly_day_offs[i],
                 days_remaining_in_week |-> DAYS_PER_WEEK - 1 - (day % DAYS_PER_WEEK),
                 morning_count |-> st.morning_count,
                 evening_count |-> st.evening_count ]
        c == FirstValidShift(rules, ctx, opts)
    IN IF c = 0
       THEN [st EXCEPT !.err = Some([staff_id |-> staff_ids[i], day |-> day])]
       ELSE [st EXCEPT
               !.weekly_day_offs[i] = IF opts[c] = "DayOff" THEN @ + 1 ELSE @,
               !.morning_count = IF opts[c] = "Morning" THEN @ + 1 ELSE @,
               !.evening_count = IF opts[c] = "Evening" THEN @ + 1 ELSE @,
               !.previous_shifts[i] = Some(opts[c]),
               !.assignments = IF opts[c] = "DayOff" THEN @
                               ELSE Append(@, [ staff_id |-> staff_ids[i],
                                                date |-> period_begin_date + day,
                                                shift_type |-> opts[c] ])]

\* One iteration of `for &i in order` for staff index i on the given day.
\* st is the generator's mutable state; st.err is set on NoValidShift.
AssignStaff(st, i, day, staff_ids, period_begin_date, rules) ==
    LET opts == shift_options(day)
        ctx == [ previous_shift |-> st.previous_shifts[i],
                 day_offs_this_week |-> st.weekly_day_offs[i],
                 days_remaining_in_week |-> DAYS_PER_WEEK - 1 - (day % DAYS_PER_WEEK),
                 morning_count |-> st.morning_count,
                 evening_count |-> st.evening_count ]
        c == FirstValidShift(rules, ctx, opts)
    IN IF c = 0
       THEN [st EXCEPT !.err = Some([staff_id |-> staff_ids[i], day |-> day])]
       ELSE [st EXCEPT
               !.weekly_day_offs[i] = IF opts[c] = "DayOff" THEN @ + 1 ELSE @,
               !.morning_count = IF opts[c] = "Morning" THEN @ + 1 ELSE @,
               !.evening_count = IF opts[c] = "Evening" THEN @ + 1 ELSE @,
               !.previous_shifts[i] = Some(opts[c]),
               !.assignments = Append(@, [ staff_id |-> staff_ids[i],
                                           date |-> period_begin_date + day,
                                           shift_type |-> opts[c] ])]

\* Variant of StaffLoop that visits the rest of the day's staff after a staff
\* member was left without a valid shift
RECURSIVE StaffLoopFinishesDay(_, _, _, _, _, _)
StaffLoopFinishesDay(st, k, day, staff_ids, period_begin_date, rules) ==
    IF k > Len(staff_ids) THEN st
    ELSE StaffLoopFinishesDay(
             AssignStaff(st, staff_order(day, Len(staff_ids))[k], day,
                         staff_ids, period_begin_date, rules),
             k + 1, day, staff_ids, period_begin_date, rules)

RECURSIVE StaffLoop(_, _, _, _, _, _)
StaffLoop(st, k, day, staff_ids, period_begin_date, rules) ==
    IF k > Len(staff_ids) \/ st.err.some THEN st
    ELSE StaffLoop(AssignStaff(st, staff_order(day, Len(staff_ids))[k], day,
                               staff_ids, period_begin_date, rules),
                   k + 1, day, staff_ids, period_begin_date, rules)

\* Variant of DayLoop that forgets the previous shifts at each week start
RECURSIVE DayLoopForgetsPreviousShifts(_, _, _, _, _)
DayLoopForgetsPreviousShifts(st, day, staff_ids, period_begin_date, rules) ==
    IF day >= PERIOD_DAYS \/ st.err.some THEN st
    ELSE LET st0 == [st EXCEPT
                       !.weekly_day_offs =
                           IF day % DAYS_PER_WEEK = 0
                           THEN [i \in 1..Len(staff_ids) |-> 0] ELSE @,
                       !.previous_shifts =
                           IF day % DAYS_PER_WEEK = 0
                           THEN [i \in 1..Len(staff_ids) |-> None] ELSE @,
                       !.morning_count = 0,
                       !.evening_count = 0]
         IN DayLoopForgetsPreviousShifts(
                StaffLoop(st0, 1, day, staff_ids, period_begin_date, rules),
                day + 1, staff_ids, period_begin_date, rules)

RECURSIVE DayLoop(_, _, _, _, _)
DayLoop(st, day, staff_ids, period_begin_date, rules) ==
    IF day >= PERIOD_DAYS \/ st.err.some THEN st
    ELSE LET st0 == [st EXCEPT
                       !.weekly_day_offs =
                           IF day % DAYS_PER_WEEK = 0
                           THEN [i \in 1..Len(staff_ids) |-> 0] ELSE @,
                       !.morning_count = 0,
                       !.evening_count = 0]
         IN DayLoop(StaffLoop(st0, 1, day, staff_ids, period_begin_date, rules),
                    day + 1, staff_ids, period_begin_date, rules)

\* gen_schedule: Ok(assignments) or Err(NoValidShift{staff_id, day}).
gen_schedule(staff_ids, period_begin_date, rules) ==
    LET st0 == [ assignments |-> << >>,
                 previous_shifts |-> [i \in 1..Len(staff_ids) |-> None],
                 weekly_day_offs |-> [i \in 1..Len(staff_ids) |-> 0],
                 morning_count |-> 0,
                 evening_count |-> 0,
                 err |-> None ]
        fin == DayLoop(st0, 0, staff_ids, period_begin_date, rules)
    IN IF fin.err.some
       THEN [ok |-> FALSE, assignments |-> << >>, err |-> fin.err.v]
       ELSE [ok |-> TRUE, assignments |-> fin.assignments, err |-> [staff_id |-> 0, day |-> 0]]

\* ------------------------------------------------------------------------
\* State
\* ------------------------------------------------------------------------
VARIABLES
    jobs,               \* table schedule_jobs: id -> row
    shift_assignments,  \* table shift_assignments: rows in insertion order
    tasks,              \* bag of the process_job tasks alive on the task tracker
    finished,           \* the process_job run that returned in the last step
    boot,               \* main: recover_stale_jobs, then serving
    health,             \* the health loop task
    retrying,           \* the health loop's AtomicBool latch
    breaker,            \* the shared CircuitBreaker
    now,                \* the clock
    config,             \* SchedulingConfig of the process
    db_faults,          \* whether store operations may fail
    reply,              \* the response of the API call made in the last step
    boot_log,           \* what this boot found in the store and has re-spawned
    data_service,       \* the remote data service: "unreliable" or "healthy"
    calls,              \* the calls a lone caller has made on the breaker
    http,               \* one call of the HTTP roster client on its own
    sched,              \* one run of gen_schedule on its own
    callers             \* the concurrent callers of the wrapped client

vars == << jobs, shift_assignments, tasks, finished, boot, health, retrying,
           breaker, now, config, db_faults, reply, boot_log, data_service,
           calls, http, sched, callers >>

\* ------------------------------------------------------------------------
\* Inputs
\* ------------------------------------------------------------------------
StaffGroups == {1}
\* 0: a Monday in the past, 7: a Monday, 8: a Tuesday, 14: the Monday after
SubmitDates == {0, 7, 8, 14}
\* today_in(timezone) as read by one call
Todays == {7, 8}
Configs == {DefaultConfig, StrictBalanceConfig}

Staff(id, status) == [id |-> id, status |-> status]
\* Bodies the data service answers resolved-members with
Rosters == { << >>,
             << Staff(2, "Inactive") >>,
             << Staff(1, "Active"), Staff(2, "Inactive") >> }

JobIds == 1..MaxJobs
\* ids a client may ask about: every id the store can hand out
QueryIds == JobIds

\* Outcomes of a store operation: Ok, or a Database error when faults are on
StoreOutcomes == IF db_faults THEN {TRUE, FALSE} ELSE {TRUE}

\* ------------------------------------------------------------------------
\* Dates (chrono::NaiveDate as a day number, Monday = 0 mod 7)
\* ------------------------------------------------------------------------
IsMonday(d) == d % DAYS_PER_WEEK = 0

\* ------------------------------------------------------------------------
\* Job store (infrastructure/job.rs)
\* ------------------------------------------------------------------------
\* The id the database assigns to a new row: one no row has yet.
FreshId(js) == CHOOSE id \in JobIds : id \notin DOMAIN js /\ \A o \in DOMAIN js : o < id

create_job(js, staff_group_id, period_begin_date) ==
    LET id == FreshId(js)
    IN (id :> [ id |-> id,
                staff_group_id |-> staff_group_id,
                period_begin_date |-> period_begin_date,
                status |-> "Pending" ]) @@ js

find_by_id(js, id) == IF id \in DOMAIN js THEN Some(js[id]) ELSE None

\* UPDATE ... WHERE id = $1 (rows_affected = 0 is NotFound)
update_status(js, id, status) ==
    IF id \in DOMAIN js THEN [js EXCEPT ![id].status = status] ELSE js

\* Ascending sequence of the elements of a finite set of integers
RECURSIVE SortedSeq(_)
SortedSeq(S) ==
    IF S = {} THEN << >>
    ELSE LET m == CHOOSE x \in S : \A y \in S : x <= y
         IN << m >> \o SortedSeq(S \ {m})

\* ORDER BY created_at ASC: ids are handed out in creation order
find_by_status(js, status) ==
    SortedSeq({id \in DOMAIN js : js[id].status = status})

SelectSeqBy(seq, job_id) == SelectSeq(seq, LAMBDA r : r.job_id = job_id)

\* INSERT ... SELECT * FROM UNNEST(...): one row per new assignment
save_assignments(tbl, job_id, assignments) ==
    tbl \o [k \in 1..Len(assignments) |->
              [ job_id |-> job_id,
                staff_id |-> assignments[k].staff_id,
                date |-> assignments[k].date,
                shift_type |-> assignments[k].shift_type ]]

\* DELETE FROM shift_assignments WHERE job_id = $1
delete_assignments(tbl, job_id) == SelectSeq(tbl, LAMBDA r : r.job_id # job_id)

RECURSIVE ConcatAll(_, _)
ConcatAll(f, keys) ==
    IF keys = << >> THEN << >> ELSE f[Head(keys)] \o ConcatAll(f, Tail(keys))

\* SELECT ... WHERE job_id = $1 ORDER BY staff_id, date
get_assignments(tbl, job_id) ==
    LET mine == SelectSeqBy(tbl, job_id)
        keys == { << mine[k].staff_id, mine[k].date >> : k \in 1..Len(mine) }
        staffs == SortedSeq({ k[1] : k \in keys })
        byStaff == [ s \in { k[1] : k \in keys } |->
                       LET dates == SortedSeq({ k[2] : k \in { q \in keys : q[1] = s } })
                           byDate == [ d \in { k[2] : k \in keys } |->
                                         SelectSeq(mine, LAMBDA r : r.staff_id = s /\ r.date = d) ]
                       IN ConcatAll(byDate, dates) ]
    IN ConcatAll(byStaff, staffs)

\* ------------------------------------------------------------------------
\* Typed job state machine (domain/job_state.rs)
\* ------------------------------------------------------------------------
from_schedule_job(job) == IF job.status = "Pending" THEN Some(job) ELSE None
start_processing == "Processing"
complete == "Completed"
fail == "Failed"
wait_for_retry == "WaitingForRetry"
into_pending == "Pending"

\* ------------------------------------------------------------------------
\* Circuit breaker (domain/circuit_breaker.rs)
\* ------------------------------------------------------------------------
NewBreaker == [ state |-> "Closed", consecutive_failures |-> 0, last_failure_time |-> None ]

\* Variant of can_execute that admits the trial call only once more than the
\* cooldown has elapsed
can_execute_past_cooldown(b, t) ==
    CASE b.state = "Closed" -> [ok |-> TRUE, b |-> b]
      [] b.state = "Open" ->
            IF b.last_failure_time.some /\ t - b.last_failure_time.v > cooldown_secs
            THEN [ok |-> TRUE, b |-> [b EXCEPT !.state = "HalfOpen"]]
            ELSE [ok |-> FALSE, b |-> b]
      [] b.state = "HalfOpen" -> [ok |-> TRUE, b |-> b]

\* can_execute at instant t: the answer and the breaker afterwards
can_execute(b, t) ==
    CASE b.state = "Closed" -> [ok |-> TRUE, b |-> b]
      [] b.state = "Open" ->
            IF b.last_failure_time.some /\ t - b.last_failure_time.v >= cooldown_secs
            THEN [ok |-> TRUE, b |-> [b EXCEPT !.state = "HalfOpen"]]
            ELSE [ok |-> FALSE, b |-> b]
      [] b.state = "HalfOpen" -> [ok |-> TRUE, b |-> b]

\* Variant of record_success that closes the breaker and keeps its counter and
\* stamp
record_success_state_only(b) == [b EXCEPT !.state = "Closed"]

record_success(b) ==
    [ state |-> "Closed", consecutive_failures |-> 0, last_failure_time |-> None ]

\* Variant of record_failure that opens one failure late
record_failure_past_threshold(b, t) ==
    LET n == b.consecutive_failures + 1
    IN [ state |-> CASE b.state = "Closed" ->
                          IF n > failure_threshold THEN "Open" ELSE "Closed"
                     [] b.state = "HalfOpen" -> "Open"
                     [] b.state = "Open" -> "Open",
         consecutive_failures |-> n,
         last_failure_time |-> Some(t) ]

\* Variant of record_failure that keeps the old stamp when the trial call of
\* a HalfOpen breaker fails
record_failure_keeps_stamp(b, t) ==
    LET n == b.consecutive_failures + 1
    IN [ state |-> CASE b.state = "Closed" ->
                          IF n >= failure_threshold THEN "Open" ELSE "Closed"
                     [] b.state = "HalfOpen" -> "Open"
                     [] b.state = "Open" -> "Open",
         consecutive_failures |-> n,
         last_failure_time |-> IF b.state = "HalfOpen" THEN b.last_failure_time
                                                       ELSE Some(t) ]

record_failure(b, t) ==
    LET n == b.consecutive_failures + 1
    IN [ state |-> CASE b.state = "Closed" ->
                          IF n >= failure_threshold THEN "Open" ELSE "Closed"
                     [] b.state = "HalfOpen" -> "Open"
                     [] b.state = "Open" -> "Open",
         consecutive_failures |-> n,
         last_failure_time |-> Some(t) ]

\* Variant of force_close that closes the breaker and keeps its counter and
\* stamp
force_close_state_only(b) == [b EXCEPT !.state = "Closed"]

force_close(b) ==
    [ state |-> "Closed", consecutive_failures |-> 0, last_failure_time |-> None ]

\* Variant of get_resolved_members that counts a refused call as a failure
get_resolved_members_counts_refusal(b, t, res) ==
    LET ce == can_execute(b, t)
    IN IF ~ce.ok
       THEN [b |-> record_failure(ce.b, t), ret |-> "CircuitOpen",
             invoked |-> FALSE, recorded |-> "none"]
       ELSE IF res.kind = "Ok"
            THEN [b |-> record_success(ce.b), ret |-> "Ok",
                  invoked |-> TRUE, recorded |-> "success"]
            ELSE [b |-> record_failure(ce.b, t), ret |-> res.kind,
                  invoked |-> TRUE, recorded |-> "failure"]

\* CircuitBreakerClient::get_resolved_members as one call at instant t, res
\* being what the inner client would return: the breaker afterwards, the
\* result, whether the inner client was invoked, and what was recorded.
get_resolved_members(b, t, res) ==
    LET ce == can_execute(b, t)
    IN IF ~ce.ok
       THEN [b |-> ce.b, ret |-> "CircuitOpen", invoked |-> FALSE, recorded |-> "none"]
       ELSE IF res.kind = "Ok"
            THEN [b |-> record_success(ce.b), ret |-> "Ok",
                  invoked |-> TRUE, recorded |-> "success"]
            ELSE [b |-> record_failure(ce.b, t), ret |-> res.kind,
                  invoked |-> TRUE, recorded |-> "failure"]

\* Variant of record_outcome that counts only DataServiceUnavailable as a
\* failure
record_outcome_unavailable_only(b, t, res) ==
    CASE res.kind = "Ok" -> record_success(b)
      [] res.kind = "DataServiceUnavailable" -> record_failure(b, t)
      [] OTHER -> b

\* CircuitBreakerClient::get_resolved_members after the inner call has
\* returned res: the match on its result, under the breaker's lock
record_outcome(b, t, res) ==
    IF res.kind = "Ok" THEN record_success(b) ELSE record_failure(b, t)

\* The last call made on a breaker, the state it found the breaker in, the
\* run of failures recorded since the breaker's construction, its last
\* recorded success or its last force_close, and the instant of the last
\* recorded failure.
NoCalls == [ op |-> "new", ret |-> "unit", invoked |-> FALSE, recorded |-> "none",
            was |-> "Closed", streak |-> 0, failed_at |-> 0 ]

\* ------------------------------------------------------------------------
\* HTTP roster client (infrastructure/client.rs)
\* ------------------------------------------------------------------------
\* What one attempt meets: a transport failure, a non-success status, a body
\* that does not decode, a decoded body without data, or a body with data.
AttemptOutcomes == {"transport", "status", "undecodable", "nodata", "ok"}

\* Variant of HttpAttempt that tries again after a non-success status
RECURSIVE HttpAttemptRetriesStatus(_, _, _, _)
HttpAttemptRetriesStatus(attempt, outs, body, sleeps) ==
    IF attempt > MAX_RETRIES
    THEN [kind |-> "DataServiceUnavailable", data |-> << >>,
          attempts |-> MAX_RETRIES, sleeps |-> sleeps]
    ELSE CASE outs[attempt] \in {"transport", "status"} ->
                HttpAttemptRetriesStatus(attempt + 1, outs, body,
                            IF attempt < MAX_RETRIES
                            THEN Append(sleeps, 100 * 2 ^ (attempt - 1)) ELSE sleeps)
           [] outs[attempt] = "ok" ->
                [kind |-> "Ok", data |-> body, attempts |-> attempt, sleeps |-> sleeps]
           [] OTHER ->
                [kind |-> "DataService", data |-> << >>, attempts |-> attempt, sleeps |-> sleeps]

\* Variant of HttpAttempt that sleeps after the last attempt too
RECURSIVE HttpAttemptSleepsAfterLast(_, _, _, _)
HttpAttemptSleepsAfterLast(attempt, outs, body, sleeps) ==
    IF attempt > MAX_RETRIES
    THEN [kind |-> "DataServiceUnavailable", data |-> << >>,
          attempts |-> MAX_RETRIES, sleeps |-> sleeps]
    ELSE CASE outs[attempt] = "transport" ->
                HttpAttemptSleepsAfterLast(attempt + 1, outs, body,
                            Append(sleeps, 100 * 2 ^ (attempt - 1)))
           [] outs[attempt] = "ok" ->
                [kind |-> "Ok", data |-> body, attempts |-> attempt, sleeps |-> sleeps]
           [] OTHER ->
                [kind |-> "DataService", data |-> << >>, attempts |-> attempt, sleeps |-> sleeps]

\* The loop `for attempt in 1..=MAX_RETRIES`, outs[attempt] being what the
\* attempt meets and body the data of a complete response.
RECURSIVE HttpAttempt(_, _, _, _)
HttpAttempt(attempt, outs, body, sleeps) ==
    IF attempt > MAX_RETRIES
    THEN [kind |-> "DataServiceUnavailable", data |-> << >>,
          attempts |-> MAX_RETRIES, sleeps |-> sleeps]
    ELSE CASE outs[attempt] = "transport" ->
                HttpAttempt(attempt + 1, outs, body,
                            IF attempt < MAX_RETRIES
                            THEN Append(sleeps, 100 * 2 ^ (attempt - 1)) ELSE sleeps)
           [] outs[attempt] = "ok" ->
                [kind |-> "Ok", data |-> body, attempts |-> attempt, sleeps |-> sleeps]
           [] OTHER ->
                [kind |-> "DataService", data |-> << >>, attempts |-> attempt, sleeps |-> sleeps]

HttpGetResolvedMembers(outs, body) == HttpAttempt(1, outs, body, << >>)

\* The results the inner client can hand to its caller
HttpResults ==
    { [kind |-> r.kind, data |-> r.data] :
        r \in { HttpGetResolvedMembers(outs, body) :
                  outs \in [1..MAX_RETRIES -> AttemptOutcomes], body \in Rosters } }


\* No call of the client on its own is modelled
NoHttp == [pc |-> "idle"]

\* No run of gen_schedule on its own is modelled
NoSched == [pc |-> "idle"]

\* No concurrent callers of the wrapped client are modelled
NoCallers == << >>

\* ------------------------------------------------------------------------
\* Responses of the API operations
\* ------------------------------------------------------------------------
NoReply == [op |-> "none"]

\* ------------------------------------------------------------------------
\* Background tasks (domain/service.rs: spawn_process_job, process_job)
\* ------------------------------------------------------------------------
\* The task spawn_process_job puts on the tracker: it owns the PendingJob.
\* fetched is what get_resolved_members returned, generated what gen_schedule
\* returned, persisted the statuses the run has written, saves the number of
\* save_assignments calls it made, ret what process_job returns.
NewTask(pending) ==
    [ job_id |-> pending.id,
      staff_group_id |-> pending.staff_group_id,
      period_begin_date |-> pending.period_begin_date,
      pc |-> "start",
      fetched |-> "None",
      generated |-> "None",
      members |-> << >>,
      assignments |-> << >>,
      persisted |-> << >>,
      saves |-> 0,
      ret |-> "None" ]

\* No process_job run returned in the last step
NoRun == [some |-> FALSE, v |-> [job_id |-> 0]]

Live == BagToSet(tasks)
NumTasks == BagCardinality(tasks)
TasksOf(job_id) ==
    BagCardinality([t \in {x \in Live : x.job_id = job_id} |-> tasks[t]])

\* Variant of spawn_process_job that runs the job to its first status write
\* before it returns
spawn_started(ts, pending) ==
    ts (+) SetToBag({[NewTask(pending) EXCEPT !.pc = "fetch"]})

spawn_process_job(ts, pending) == ts (+) SetToBag({NewTask(pending)})

\* The task goes on as t2
Continue(t, t2) ==
    /\ tasks' = (tasks (-) SetToBag({t})) (+) SetToBag({t2})
    /\ finished' = NoRun

\* process_job returns ret, having written status if it wrote one, and the
\* task leaves the tracker
Return(t, status, ret) ==
    /\ tasks' = tasks (-) SetToBag({t})
    /\ finished' = Some([t EXCEPT !.pc = "done", !.ret = ret,
                                  !.persisted = IF status.some THEN Append(@, status.v)
                                                               ELSE @])

\* Variant of active_ids without the filter: every member's id
all_ids(members) == [k \in 1..Len(members) |-> members[k].id]

\* members.into_iter().filter(status == Active).map(id).collect()
active_ids(members) ==
    LET act == SelectSeq(members, LAMBDA m : m.status = "Active")
    IN [k \in 1..Len(act) |-> act[k].id]

\* let (processing_job, job_id, status) = pending_job.start_processing();
\* repo.update_status(job_id, status).await?;
TaskStart(t) ==
    /\ t.pc = "start"
    /\ \E ok \in StoreOutcomes :
         IF ok
         THEN /\ jobs' = update_status(jobs, t.job_id, start_processing)
              /\ Continue(t, [t EXCEPT !.pc = "fetch",
                                       !.persisted = Append(@, start_processing)])
         ELSE /\ jobs' = jobs
              /\ Return(t, None, "Database")
    /\ reply' = NoReply
    /\ UNCHANGED << shift_assignments, boot, health, retrying, breaker, now,
                    config, db_faults >>
    /\ UNCHANGED << boot_log, data_service, calls, http, sched, callers >>

\* CircuitBreakerClient::get_resolved_members, up to the delegation:
\* lock, can_execute, fast-fail with CircuitOpen when it says no.
TaskFetch(t) ==
    /\ t.pc = "fetch"
    /\ LET ce == can_execute(breaker, now)
       IN /\ breaker' = ce.b
          /\ Continue(t, IF ce.ok
                         THEN [t EXCEPT !.pc = "inflight"]
                         ELSE [t EXCEPT !.pc = "wait_for_retry",
                                        !.fetched = "CircuitOpen"])
    /\ reply' = NoReply
    /\ UNCHANGED << jobs, shift_assignments, boot, health, retrying, now,
                    config, db_faults >>
    /\ UNCHANGED << boot_log, data_service, calls, http, sched, callers >>

\* Variant of AfterRoster that takes a gen_schedule error for an empty
\* schedule and goes on to save it
AfterRosterIgnoresError(t, members, cfg) ==
    LET gs == gen_schedule(active_ids(members), t.period_begin_date, build_rules(cfg))
    IN [t EXCEPT !.pc = "save", !.fetched = "Ok", !.members = members,
                 !.generated = IF gs.ok THEN "Ok" ELSE "NoValidShift",
                 !.assignments = gs.assignments]

\* What process_job does with the roster: filter, gen_schedule, and where it
\* goes next.
AfterRoster(t, members, cfg) ==
    LET gs == gen_schedule(active_ids(members), t.period_begin_date, build_rules(cfg))
    IN IF gs.ok
       THEN [t EXCEPT !.pc = "save", !.fetched = "Ok", !.members = members,
                      !.generated = "Ok", !.assignments = gs.assignments]
       ELSE [t EXCEPT !.pc = "fail", !.fetched = "Ok", !.members = members,
                      !.generated = "NoValidShift"]

\* Variant of AfterFetchError whose retry arm matches CircuitOpen only
AfterFetchErrorCircuitOnly(t, kind) ==
    IF kind = "CircuitOpen"
    THEN [t EXCEPT !.pc = "wait_for_retry", !.fetched = kind]
    ELSE [t EXCEPT !.pc = "fail", !.fetched = kind]

\* Variant of AfterFetchError that parks the job on every fetch error
AfterFetchErrorAlwaysRetry(t, kind) ==
    [t EXCEPT !.pc = "wait_for_retry", !.fetched = kind]

\* The match on the error of get_resolved_members
AfterFetchError(t, kind) ==
    IF kind \in {"CircuitOpen", "DataServiceUnavailable"}
    THEN [t EXCEPT !.pc = "wait_for_retry", !.fetched = kind]
    ELSE [t EXCEPT !.pc = "fail", !.fetched = kind]

\* The inner call returns; the breaker records the outcome; process_job
\* branches on the result.
TaskInner(t) ==
    /\ t.pc = "inflight"
    /\ \E res \in HttpResults :
         /\ res.kind # "Ok" => data_service = "unreliable"
         /\ res.kind # "Ok" => breaker.consecutive_failures < MaxFailures
         /\ breaker' = IF res.kind = "Ok" THEN record_success(breaker)
                                          ELSE record_failure(breaker, now)
         /\ Continue(t, IF res.kind = "Ok" THEN AfterRoster(t, res.data, config)
                                           ELSE AfterFetchError(t, res.kind))
    /\ reply' = NoReply
    /\ UNCHANGED << jobs, shift_assignments, boot, health, retrying, now,
                    config, db_faults >>
    /\ UNCHANGED << boot_log, data_service, calls, http, sched, callers >>

\* repo.save_assignments(job_id, assignments).await?;
TaskSave(t) ==
    /\ t.pc = "save"
    /\ Len(shift_assignments) + Len(t.assignments) <= MaxRows
    /\ \E ok \in StoreOutcomes :
         IF ok
         THEN /\ shift_assignments' =
                    save_assignments(shift_assignments, t.job_id, t.assignments)
              /\ Continue(t, [t EXCEPT !.pc = "complete", !.saves = @ + 1])
         ELSE /\ shift_assignments' = shift_assignments
              /\ Return(t, None, "Database")
    /\ reply' = NoReply
    /\ UNCHANGED << jobs, boot, health, retrying, breaker, now, config, db_faults >>
    /\ UNCHANGED << boot_log, data_service, calls, http, sched, callers >>

\* let (_completed, id, status) = processing_job.complete();
\* repo.update_status(id, status).await?;  Ok(())
TaskComplete(t) ==
    /\ t.pc = "complete"
    /\ \E ok \in StoreOutcomes :
         IF ok
         THEN /\ jobs' = update_status(jobs, t.job_id, complete)
              /\ Return(t, Some(complete), "Ok")
         ELSE /\ jobs' = jobs
              /\ Return(t, None, "Database")
    /\ reply' = NoReply
    /\ UNCHANGED << shift_assignments, boot, health, retrying, breaker, now,
                    config, db_faults >>
    /\ UNCHANGED << boot_log, data_service, calls, http, sched, callers >>

\* The error arm for CircuitOpen | DataServiceUnavailable:
\* processing_job.wait_for_retry(); update_status, a failure of which is only
\* logged; return Err(e)
TaskWaitForRetry(t) ==
    /\ t.pc = "wait_for_retry"
    /\ \E ok \in StoreOutcomes :
         IF ok
         THEN /\ jobs' = update_status(jobs, t.job_id, wait_for_retry)
              /\ Return(t, Some(wait_for_retry), t.fetched)
         ELSE /\ jobs' = jobs
              /\ Return(t, None, t.fetched)
    /\ reply' = NoReply
    /\ UNCHANGED << shift_assignments, boot, health, retrying, breaker, now,
                    config, db_faults >>
    /\ UNCHANGED << boot_log, data_service, calls, http, sched, callers >>

\* What process_job returns from its two arms that mark the job Failed
FailReturn(t) == IF t.generated = "NoValidShift" THEN "Internal" ELSE t.fetched

\* The arms for any other fetch error and for a gen_schedule error:
\* processing_job.fail(); update_status, a failure of which is only logged;
\* return the error
TaskFail(t) ==
    /\ t.pc = "fail"
    /\ \E ok \in StoreOutcomes :
         IF ok
         THEN /\ jobs' = update_status(jobs, t.job_id, fail)
              /\ Return(t, Some(fail), FailReturn(t))
         ELSE /\ jobs' = jobs
              /\ Return(t, None, FailReturn(t))
    /\ reply' = NoReply
    /\ UNCHANGED << shift_assignments, boot, health, retrying, breaker, now,
                    config, db_faults >>
    /\ UNCHANGED << boot_log, data_service, calls, http, sched, callers >>

\* ------------------------------------------------------------------------
\* API operations (domain/service.rs)
\* ------------------------------------------------------------------------
\* Variant of SubmitRejects that also turns away today's date
SubmitRejectsToday(period_begin_date, today) ==
    ~IsMonday(period_begin_date) \/ period_begin_date <= today

\* Whether submit_schedule rejects the date, today being today_in(timezone)
SubmitRejects(period_begin_date, today) ==
    ~IsMonday(period_begin_date) \/ period_begin_date < today

submit_schedule(staff_group_id, period_begin_date, today) ==
    /\ boot.pc = "serving"
    /\ IF SubmitRejects(period_begin_date, today)
       THEN /\ reply' = [op |-> "submit", kind |-> "BadRequest"]
            /\ UNCHANGED << jobs, tasks >>
       ELSE /\ Cardinality(DOMAIN jobs) < MaxJobs
            /\ NumTasks < MaxTasks
            /\ \E ok \in StoreOutcomes :
                 IF ok
                 THEN LET js == create_job(jobs, staff_group_id, period_begin_date)
                          job == js[FreshId(jobs)]
                          pending == from_schedule_job(job)
                      IN /\ jobs' = js
                         /\ tasks' = IF pending.some
                                     THEN spawn_process_job(tasks, pending.v) ELSE tasks
                         /\ reply' = IF pending.some
                                     THEN [op |-> "submit", kind |-> "Ok", job |-> job]
                                     ELSE [op |-> "submit", kind |-> "Internal"]
                 ELSE /\ reply' = [op |-> "submit", kind |-> "Database"]
                      /\ UNCHANGED << jobs, tasks >>
    /\ finished' = NoRun
    /\ UNCHANGED << shift_assignments, boot, health, retrying, breaker, now,
                    config, db_faults >>
    /\ UNCHANGED << boot_log, data_service, calls, http, sched, callers >>

get_status(job_id) ==
    /\ boot.pc = "serving"
    /\ \E ok \in StoreOutcomes :
         reply' = IF ~ok THEN [op |-> "get_status", id |-> job_id, kind |-> "Database"]
                  ELSE LET found == find_by_id(jobs, job_id)
                       IN IF found.some
                          THEN [op |-> "get_status", id |-> job_id, kind |-> "Ok", job |-> found.v]
                          ELSE [op |-> "get_status", id |-> job_id, kind |-> "NotFound"]
    /\ finished' = NoRun
    /\ UNCHANGED << jobs, shift_assignments, tasks, boot, health, retrying,
                    breaker, now, config, db_faults >>
    /\ UNCHANGED << boot_log, data_service, calls, http, sched, callers >>

\* Variant of get_result without the status check
get_result_any_status(job_id) ==
    /\ boot.pc = "serving"
    /\ \E ok1 \in StoreOutcomes, ok2 \in StoreOutcomes :
         reply' =
           IF ~ok1 THEN [op |-> "get_result", id |-> job_id, kind |-> "Database"]
           ELSE LET found == find_by_id(jobs, job_id)
                IN IF ~found.some
                   THEN [op |-> "get_result", id |-> job_id, kind |-> "NotFound"]
                   ELSE IF ~ok2
                   THEN [op |-> "get_result", id |-> job_id, kind |-> "Database"]
                   ELSE [op |-> "get_result", id |-> job_id, kind |-> "Ok",
                         schedule_id |-> found.v.id,
                         period_begin_date |-> found.v.period_begin_date,
                         staff_group_id |-> found.v.staff_group_id,
                         assignments |-> get_assignments(shift_assignments, job_id)]
    /\ finished' = NoRun
    /\ UNCHANGED << jobs, shift_assignments, tasks, boot, health, retrying,
                    breaker, now, config, db_faults >>
    /\ UNCHANGED << boot_log, data_service, calls, http, sched, callers >>

get_result(job_id) ==
    /\ boot.pc = "serving"
    /\ \E ok1 \in StoreOutcomes, ok2 \in StoreOutcomes :
         reply' =
           IF ~ok1 THEN [op |-> "get_result", id |-> job_id, kind |-> "Database"]
           ELSE LET found == find_by_id(jobs, job_id)
                IN IF ~found.some
                   THEN [op |-> "get_result", id |-> job_id, kind |-> "NotFound"]
                   ELSE IF found.v.status # "Completed"
                   THEN [op |-> "get_result", id |-> job_id, kind |-> "BadRequest"]
                   ELSE IF ~ok2
                   THEN [op |-> "get_result", id |-> job_id, kind |-> "Database"]
                   ELSE [op |-> "get_result", id |-> job_id, kind |-> "Ok",
                         schedule_id |-> found.v.id,
                         period_begin_date |-> found.v.period_begin_date,
                         staff_group_id |-> found.v.staff_group_id,
                         assignments |-> get_assignments(shift_assignments, job_id)]
    /\ finished' = NoRun
    /\ UNCHANGED << jobs, shift_assignments, tasks, boot, health, retrying,
                    breaker, now, config, db_faults >>
    /\ UNCHANGED << boot_log, data_service, calls, http, sched, callers >>

\* ------------------------------------------------------------------------
\* Recovery and retry (domain/service.rs)
\* ------------------------------------------------------------------------
Idle(pc) == [pc |-> pc, list |-> << >>, idx |-> 0]

\* respawn_as_pending: reload the job, spawn it if it is Pending
WouldRespawn(js, job_id) ==
    LET found == find_by_id(js, job_id)
    IN found.some /\ from_schedule_job(found.v).some

respawn_as_pending(ts, js, job_id) ==
    IF WouldRespawn(js, job_id) THEN spawn_process_job(ts, js[job_id]) ELSE ts

\* The record of a boot: at_boot is the status each job was stored with when
\* the process started, respawned the jobs of at_boot that recovery or a retry
\* sweep has spawned a task for since.
NewBootLog(js) ==
    [ at_boot |-> [id \in DOMAIN js |-> js[id].status], respawned |-> {} ]

\* respawn_as_pending(job_id) has run
Respawned(log, js, job_id) ==
    IF WouldRespawn(js, job_id) /\ job_id \in DOMAIN log.at_boot
    THEN [log EXCEPT !.respawned = @ \cup {job_id}]
    ELSE log

\* The two callers of retry_waiting_jobs: recover_stale_jobs at startup and
\* check_health on a recovery.
Sweepers == {"boot", "health"}
SweepOf(who) == IF who = "boot" THEN boot ELSE health

\* Variant of Returned in which check_health leaves the latch set
ReturnedLatchKept(who, co) ==
    /\ boot' = IF who # "boot" THEN boot
               ELSE IF co.pc = "returned" THEN Idle("serving") ELSE co
    /\ health' = IF who # "health" THEN health
                 ELSE IF co.pc = "returned" THEN Idle("idle") ELSE co
    /\ retrying' = retrying

\* What the caller does once retry_waiting_jobs has returned (Ok or Err):
\* main goes on to serve requests; check_health clears the latch and the
\* loop waits for the next tick.
Returned(who, co) ==
    /\ boot' = IF who # "boot" THEN boot
               ELSE IF co.pc = "returned" THEN Idle("serving") ELSE co
    /\ health' = IF who # "health" THEN health
                 ELSE IF co.pc = "returned" THEN Idle("idle") ELSE co
    /\ retrying' = IF who = "health" /\ co.pc = "returned" THEN FALSE ELSE retrying

\* retry_waiting_jobs: find_by_status(WaitingForRetry)
RetryFind(who) ==
    /\ SweepOf(who).pc = "retry_find"
    /\ \E ok \in StoreOutcomes :
         LET waiting_jobs == find_by_status(jobs, "WaitingForRetry")
         IN Returned(who, IF ~ok \/ waiting_jobs = << >>
                          THEN Idle("returned")
                          ELSE [pc |-> "retry_reset", list |-> waiting_jobs, idx |-> 1])
    /\ reply' = NoReply
    /\ finished' = NoRun
    /\ UNCHANGED << jobs, shift_assignments, tasks, breaker, now, config, db_faults >>
    /\ UNCHANGED << boot_log, data_service, calls, http, sched, callers >>

\* retry_waiting_jobs: update_status(job_id, Pending) for the current job
RetryReset(who) ==
    /\ SweepOf(who).pc = "retry_reset"
    /\ \E ok \in StoreOutcomes :
         LET co == SweepOf(who)
         IN IF ok
            THEN /\ jobs' = update_status(jobs, co.list[co.idx], "Pending")
                 /\ Returned(who, [co EXCEPT !.pc = "retry_respawn"])
            ELSE /\ jobs' = jobs
                 /\ Returned(who, Idle("returned"))
    /\ reply' = NoReply
    /\ finished' = NoRun
    /\ UNCHANGED << shift_assignments, tasks, breaker, now, config, db_faults >>
    /\ UNCHANGED << boot_log, data_service, calls, http, sched, callers >>

\* retry_waiting_jobs: respawn_as_pending(job_id), then the next job
RetryRespawn(who) ==
    /\ SweepOf(who).pc = "retry_respawn"
    /\ \E ok \in StoreOutcomes :
         LET co == SweepOf(who)
         IN IF ok
            THEN /\ WouldRespawn(jobs, co.list[co.idx]) => NumTasks < MaxTasks
                 /\ tasks' = respawn_as_pending(tasks, jobs, co.list[co.idx])
                 /\ boot_log' = Respawned(boot_log, jobs, co.list[co.idx])
                 /\ Returned(who, IF co.idx >= Len(co.list)
                                  THEN Idle("returned")
                                  ELSE [co EXCEPT !.pc = "retry_reset", !.idx = @ + 1])
            ELSE /\ tasks' = tasks
                 /\ boot_log' = boot_log
                 /\ Returned(who, Idle("returned"))
    /\ reply' = NoReply
    /\ finished' = NoRun
    /\ UNCHANGED << jobs, shift_assignments, breaker, now, config, db_faults >>
    /\ UNCHANGED << data_service, calls, http, sched, callers >>

\* recover_stale_jobs: find_by_status(Processing)
RecoverFind ==
    /\ boot.pc = "recover_find"
    /\ \E ok \in StoreOutcomes :
         LET stale_jobs == find_by_status(jobs, "Processing")
         IN boot' = IF ~ok THEN Idle("serving")
                    ELSE IF stale_jobs = << >> THEN Idle("retry_find")
                    ELSE [pc |-> "recover_delete", list |-> stale_jobs, idx |-> 1]
    /\ reply' = NoReply
    /\ finished' = NoRun
    /\ UNCHANGED << jobs, shift_assignments, tasks, health, retrying, breaker,
                    now, config, db_faults >>
    /\ UNCHANGED << boot_log, data_service, calls, http, sched, callers >>

\* recover_stale_jobs: delete_assignments(job_id)
RecoverDelete ==
    /\ boot.pc = "recover_delete"
    /\ \E ok \in StoreOutcomes :
         IF ok
         THEN /\ shift_assignments' = delete_assignments(shift_assignments, boot.list[boot.idx])
              /\ boot' = [boot EXCEPT !.pc = "recover_reset"]
         ELSE /\ shift_assignments' = shift_assignments
              /\ boot' = Idle("serving")
    /\ reply' = NoReply
    /\ finished' = NoRun
    /\ UNCHANGED << jobs, tasks, health, retrying, breaker, now, config, db_faults >>
    /\ UNCHANGED << boot_log, data_service, calls, http, sched, callers >>

\* Variant of RecoverReset that leaves the stored status as it is
RecoverResetSkipped ==
    /\ boot.pc = "recover_reset"
    /\ boot' = [boot EXCEPT !.pc = "recover_respawn"]
    /\ reply' = NoReply
    /\ finished' = NoRun
    /\ UNCHANGED << jobs, shift_assignments, tasks, health, retrying, breaker,
                    now, config, db_faults, boot_log >>
    /\ UNCHANGED << data_service, calls, http, sched, callers >>

\* recover_stale_jobs: update_status(job_id, Pending)
RecoverReset ==
    /\ boot.pc = "recover_reset"
    /\ \E ok \in StoreOutcomes :
         IF ok
         THEN /\ jobs' = update_status(jobs, boot.list[boot.idx], "Pending")
              /\ boot' = [boot EXCEPT !.pc = "recover_respawn"]
         ELSE /\ jobs' = jobs
              /\ boot' = Idle("serving")
    /\ reply' = NoReply
    /\ finished' = NoRun
    /\ UNCHANGED << shift_assignments, tasks, health, retrying, breaker, now,
                    config, db_faults >>
    /\ UNCHANGED << boot_log, data_service, calls, http, sched, callers >>

\* recover_stale_jobs: respawn_as_pending(job_id), then the next stale job,
\* and after the last one retry_waiting_jobs
RecoverRespawn ==
    /\ boot.pc = "recover_respawn"
    /\ \E ok \in StoreOutcomes :
         IF ok
         THEN /\ WouldRespawn(jobs, boot.list[boot.idx]) => NumTasks < MaxTasks
              /\ tasks' = respawn_as_pending(tasks, jobs, boot.list[boot.idx])
              /\ boot_log' = Respawned(boot_log, jobs, boot.list[boot.idx])
              /\ boot' = IF boot.idx >= Len(boot.list)
                         THEN Idle("retry_find")
                         ELSE [boot EXCEPT !.pc = "recover_delete", !.idx = @ + 1]
         ELSE /\ tasks' = tasks
              /\ boot_log' = boot_log
              /\ boot' = Idle("serving")
    /\ reply' = NoReply
    /\ finished' = NoRun
    /\ UNCHANGED << jobs, shift_assignments, health, retrying, breaker, now,
                    config, db_faults >>
    /\ UNCHANGED << data_service, calls, http, sched, callers >>

\* ------------------------------------------------------------------------
\* Health loop (infrastructure/health_check.rs)
\* ------------------------------------------------------------------------
ProbeOutcomes == {"success", "non_success", "transport_error"}

\* Variant of check_health that counts a failed probe twice
check_health_counts_twice(outcome) ==
    /\ health.pc = "idle"
    /\ IF outcome = "success"
       THEN LET was_not_closed == breaker.state # "Closed"
            IN /\ breaker' = force_close(breaker)
               /\ IF was_not_closed /\ ~retrying
                  THEN /\ retrying' = TRUE
                       /\ health' = Idle("retry_find")
                  ELSE UNCHANGED << retrying, health >>
       ELSE /\ data_service = "unreliable"
            /\ breaker.consecutive_failures + 1 < MaxFailures
            /\ breaker' = record_failure(record_failure(breaker, now), now)
            /\ UNCHANGED << retrying, health >>
    /\ reply' = NoReply
    /\ finished' = NoRun
    /\ UNCHANGED << jobs, shift_assignments, tasks, boot, now, config, db_faults >>
    /\ UNCHANGED << boot_log, data_service, calls, http, sched, callers >>

\* One tick of the loop: the probe, and what check_health does with its
\* result up to the call of retry_waiting_jobs.
check_health(outcome) ==
    /\ health.pc = "idle"
    /\ IF outcome = "success"
       THEN LET was_not_closed == breaker.state # "Closed"
            IN /\ breaker' = force_close(breaker)
               /\ IF was_not_closed /\ ~retrying
                  THEN /\ retrying' = TRUE
                       /\ health' = Idle("retry_find")
                  ELSE UNCHANGED << retrying, health >>
       ELSE /\ data_service = "unreliable"
            /\ breaker.consecutive_failures < MaxFailures
            /\ breaker' = record_failure(breaker, now)
            /\ UNCHANGED << retrying, health >>
    /\ reply' = NoReply
    /\ finished' = NoRun
    /\ UNCHANGED << jobs, shift_assignments, tasks, boot, now, config, db_faults >>
    /\ UNCHANGED << boot_log, data_service, calls, http, sched, callers >>

\* ------------------------------------------------------------------------
\* Environment
\* ------------------------------------------------------------------------
\* Time passes.
Tick ==
    /\ now < MaxTime
    /\ now' = now + 1
    /\ reply' = NoReply
    /\ finished' = NoRun
    /\ UNCHANGED << jobs, shift_assignments, tasks, boot, health, retrying,
                    breaker, config, db_faults >>
    /\ UNCHANGED << boot_log, data_service, calls, http, sched, callers >>

\* The process dies (crash, or shutdown with tasks abandoned) and is started
\* again: the store survives, everything in memory is rebuilt by main.
Restart ==
    /\ tasks' = EmptyBag
    /\ boot' = Idle("recover_find")
    /\ health' = Idle("idle")
    /\ retrying' = FALSE
    /\ breaker' = NewBreaker
    /\ now' = 0
    /\ reply' = NoReply
    /\ finished' = NoRun
    /\ boot_log' = NewBootLog(jobs)
    /\ UNCHANGED << jobs, shift_assignments, config, db_faults >>
    /\ UNCHANGED << data_service, calls, http, sched, callers >>

\* ------------------------------------------------------------------------
\* Specification
\* ------------------------------------------------------------------------
Init ==
    /\ jobs = << >>
    /\ shift_assignments = << >>
    /\ tasks = EmptyBag
    /\ finished = NoRun
    /\ boot = Idle("recover_find")
    /\ health = Idle("idle")
    /\ retrying = FALSE
    /\ breaker = NewBreaker
    /\ now = 0
    /\ config \in Configs
    /\ db_faults = FALSE
    /\ reply = NoReply
    /\ boot_log = NewBootLog(<< >>)
    /\ data_service = "unreliable"
    /\ calls = NoCalls
    /\ callers = NoCallers
    /\ http = NoHttp
    /\ sched = NoSched

\* The process_job tasks on the tracker
TaskStep ==
    \/ \E t \in Live : TaskStart(t)
    \/ \E t \in Live : TaskFetch(t)
    \/ \E t \in Live : TaskInner(t)
    \/ \E t \in Live : TaskSave(t)
    \/ \E t \in Live : TaskComplete(t)
    \/ \E t \in Live : TaskWaitForRetry(t)
    \/ \E t \in Live : TaskFail(t)

\* retry_waiting_jobs, for either caller
RetryStep ==
    \/ \E who \in Sweepers : RetryFind(who)
    \/ \E who \in Sweepers : RetryReset(who)
    \/ \E who \in Sweepers : RetryRespawn(who)

\* recover_stale_jobs up to its call of retry_waiting_jobs
RecoverStep ==
    \/ RecoverFind
    \/ RecoverDelete
    \/ RecoverReset
    \/ RecoverRespawn

\* The job engine over restarts: submissions, background tasks, startup
\* recovery, the health loop and its retry sweeps.
Next ==
    \/ \E g \in StaffGroups, d \in SubmitDates, today \in Todays :
         /\ SubmitRejects(d, today) \/ Cardinality(DOMAIN jobs) < EngineJobs
         /\ submit_schedule(g, d, today)
    \/ TaskStep
    \/ RecoverStep
    \/ RetryStep
    \/ \E o \in ProbeOutcomes : check_health(o)
    \/ Tick
    \/ Restart

Spec == Init /\ [][Next]_vars

\* One run of the process, serving its API: the state once main has finished
\* recover_stale_jobs on the empty store of a first boot.
InitApi ==
    /\ jobs = << >>
    /\ shift_assignments = << >>
    /\ tasks = EmptyBag
    /\ finished = NoRun
    /\ boot = Idle("serving")
    /\ health = Idle("idle")
    /\ retrying = FALSE
    /\ breaker = NewBreaker
    /\ now = 0
    /\ config \in Configs
    /\ db_faults = FALSE
    /\ reply = NoReply
    /\ boot_log = NewBootLog(<< >>)
    /\ data_service = "unreliable"
    /\ calls = NoCalls
    /\ callers = NoCallers
    /\ http = NoHttp
    /\ sched = NoSched

NextApi ==
    \/ \E g \in StaffGroups, d \in SubmitDates, today \in Todays :
         submit_schedule(g, d, today)
    \/ \E id \in QueryIds : get_status(id)
    \/ \E id \in QueryIds : get_result(id)
    \/ TaskStep
    \/ RetryStep
    \/ \E o \in ProbeOutcomes : check_health(o)
    \/ Tick

SpecApi == InitApi /\ [][NextApi]_vars

\* The data service comes back and stays up: from here on every probe of
\* GET /health and every roster fetch succeeds.
Recover ==
    /\ data_service = "unreliable"
    /\ data_service' = "healthy"
    /\ reply' = NoReply
    /\ finished' = NoRun
    /\ UNCHANGED << jobs, shift_assignments, tasks, boot, health, retrying,
                    breaker, now, config, db_faults, boot_log, calls, http,
                    sched, callers >>

\* One run of the process through an outage of the data service and its end:
\* a feasible configuration, a working store, one job.
InitOutage ==
    /\ InitApi
    /\ config = DefaultConfig

NextOutage ==
    \/ \E g \in StaffGroups, d \in SubmitDates, today \in Todays :
         /\ SubmitRejects(d, today) \/ Cardinality(DOMAIN jobs) < EngineJobs
         /\ submit_schedule(g, d, today)
    \/ TaskStep
    \/ RetryStep
    \/ \E o \in ProbeOutcomes : check_health(o)
    \/ Tick
    \/ Recover

\* The tokio runtime keeps polling every spawned task: a process_job task
\* that can take its next step takes it, a retry sweep under way goes on, and
\* the health loop's interval keeps firing. Each subscript is the part of the
\* state that the step moves.
FairOutage ==
    /\ WF_tasks(TaskStep)
    /\ WF_<< boot, health >>(RetryStep)
    /\ WF_<< breaker, health >>(\E o \in ProbeOutcomes : check_health(o))

SpecOutage == InitOutage /\ [][NextOutage]_vars /\ FairOutage

\* ------------------------------------------------------------------------
\* The breaker and its wrapped client under a lone caller
\* ------------------------------------------------------------------------
\* Everything but the breaker, the clock and the record of the calls
BreakerRest == << jobs, shift_assignments, tasks, finished, boot, health,
                 retrying, config, db_faults, reply, boot_log, data_service,
                 http, sched, callers >>

Called(op, ret, invoked, recorded) ==
    [ op |-> op, ret |-> ret, invoked |-> invoked, recorded |-> recorded,
      was |-> breaker.state,
      streak |-> CASE recorded = "failure" -> calls.streak + 1
                   [] recorded = "success" -> 0
                   [] op = "force_close" -> 0
                   [] OTHER -> calls.streak,
      failed_at |-> IF recorded = "failure" THEN now ELSE calls.failed_at ]

CallCanExecute ==
    /\ LET ce == can_execute(breaker, now)
       IN /\ breaker' = ce.b
          /\ calls' = Called("can_execute", IF ce.ok THEN "true" ELSE "false",
                             FALSE, "none")
    /\ UNCHANGED << now, BreakerRest >>

CallRecordSuccess ==
    /\ breaker' = record_success(breaker)
    /\ calls' = Called("record_success", "unit", FALSE, "success")
    /\ UNCHANGED << now, BreakerRest >>

CallRecordFailure ==
    /\ breaker.consecutive_failures < MaxStreak
    /\ breaker' = record_failure(breaker, now)
    /\ calls' = Called("record_failure", "unit", FALSE, "failure")
    /\ UNCHANGED << now, BreakerRest >>

CallForceClose ==
    /\ breaker' = force_close(breaker)
    /\ calls' = Called("force_close", "unit", FALSE, "none")
    /\ UNCHANGED << now, BreakerRest >>

CallGetResolvedMembers(res) ==
    /\ breaker.consecutive_failures < MaxStreak
    /\ LET r == get_resolved_members(breaker, now, res)
       IN /\ breaker' = r.b
          /\ calls' = Called("get_resolved_members", r.ret, r.invoked, r.recorded)
    /\ UNCHANGED << now, BreakerRest >>

\* Time passes between two calls.
Elapse ==
    /\ now < MaxBreakerTime
    /\ now' = now + 1
    /\ calls' = Called("elapse", "unit", FALSE, "none")
    /\ UNCHANGED << breaker, BreakerRest >>

InitBreaker ==
    /\ InitApi
    /\ config = DefaultConfig

NextBreaker ==
    \/ CallCanExecute
    \/ CallRecordSuccess
    \/ CallRecordFailure
    \/ CallForceClose
    \/ \E res \in HttpResults : CallGetResolvedMembers(res)
    \/ Elapse

SpecBreaker == InitBreaker /\ [][NextBreaker]_vars

\* ------------------------------------------------------------------------
\* The HTTP roster client on its own
\* ------------------------------------------------------------------------
\* Everything but the call of the client
ClientRest == << jobs, shift_assignments, tasks, finished, boot, health,
                retrying, breaker, now, config, db_faults, reply, boot_log,
                data_service, calls, sched, callers >>

\* One call of get_resolved_members: what each attempt will meet and the body
\* a complete response carries
InitClient ==
    /\ jobs = << >>
    /\ shift_assignments = << >>
    /\ tasks = EmptyBag
    /\ finished = NoRun
    /\ boot = Idle("serving")
    /\ health = Idle("idle")
    /\ retrying = FALSE
    /\ breaker = NewBreaker
    /\ now = 0
    /\ config = DefaultConfig
    /\ db_faults = FALSE
    /\ reply = NoReply
    /\ boot_log = NewBootLog(<< >>)
    /\ data_service = "unreliable"
    /\ calls = NoCalls
    /\ callers = NoCallers
    /\ sched = NoSched
    /\ http \in { [pc |-> "ready", outs |-> outs, body |-> body] :
                     outs \in [1..MAX_RETRIES -> AttemptOutcomes], body \in Rosters }

\* The call runs to its return.
ClientCall ==
    /\ http.pc = "ready"
    /\ http' = [pc |-> "done", outs |-> http.outs, body |-> http.body,
                result |-> HttpGetResolvedMembers(http.outs, http.body)]
    /\ UNCHANGED ClientRest

NextClient == ClientCall

SpecClient == InitClient /\ [][NextClient]_vars

\* ------------------------------------------------------------------------
\* The schedule generator on its own
\* ------------------------------------------------------------------------
\* Everything but the run of gen_schedule
SchedRest == << jobs, shift_assignments, tasks, finished, boot, health,
               retrying, breaker, now, config, db_faults, reply, boot_log,
               data_service, calls, http, callers >>

\* Staff lists: sequences of distinct ids, in any order
StaffLists ==
    UNION { { l \in [1..n -> 1..MaxStaff] :
                \A a, b \in 1..n : a # b => l[a] # l[b] } : n \in 0..MaxStaff }

\* Other ids for the same positions: ids shifted up, ids in reverse order
Renamed(l, how) ==
    [k \in 1..Len(l) |-> IF how = "shifted" THEN l[k] + MaxStaff
                                            ELSE MaxStaff + 1 - l[k]]

OptionsUpTo(n) == {None} \cup { Some(v) : v \in 0..n }

\* The configurations load() accepts
SchedConfigs ==
    { cfg \in [ min_day_off_per_week : OptionsUpTo(MaxDayOffs),
                max_day_off_per_week : OptionsUpTo(MaxDayOffs),
                no_morning_after_evening : BOOLEAN,
                max_daily_shift_diff : OptionsUpTo(MaxDiff) ] : validate(cfg) }

\* One call of gen_schedule: its arguments, and a second staff list that
\* puts other ids in the same positions
InitSched ==
    /\ jobs = << >>
    /\ shift_assignments = << >>
    /\ tasks = EmptyBag
    /\ finished = NoRun
    /\ boot = Idle("serving")
    /\ health = Idle("idle")
    /\ retrying = FALSE
    /\ breaker = NewBreaker
    /\ now = 0
    /\ config = DefaultConfig
    /\ db_faults = FALSE
    /\ reply = NoReply
    /\ boot_log = NewBootLog(<< >>)
    /\ data_service = "unreliable"
    /\ calls = NoCalls
    /\ callers = NoCallers
    /\ http = NoHttp
    /\ sched \in { [pc |-> "ready", staff_ids |-> l, other_ids |-> Renamed(l, how),
                     period_begin_date |-> d, cfg |-> cfg] :
                      l \in StaffLists, how \in {"shifted", "reversed"},
                      d \in {0, 7}, cfg \in SchedConfigs }

\* Both calls run to their return.
GenSchedule ==
    /\ sched.pc = "ready"
    /\ sched' = [ pc |-> "done", staff_ids |-> sched.staff_ids,
                  other_ids |-> sched.other_ids,
                  period_begin_date |-> sched.period_begin_date,
                  cfg |-> sched.cfg,
                  result |-> gen_schedule(sched.staff_ids, sched.period_begin_date,
                                          build_rules(sched.cfg)),
                  other |-> gen_schedule(sched.other_ids, sched.period_begin_date,
                                         build_rules(sched.cfg)) ]
    /\ UNCHANGED SchedRest

NextSched == GenSchedule

SpecSched == InitSched /\ [][NextSched]_vars

\* ------------------------------------------------------------------------
\* One run of the process over a store whose operations may fail
\* ------------------------------------------------------------------------
InitFaults ==
    /\ jobs = << >>
    /\ shift_assignments = << >>
    /\ tasks = EmptyBag
    /\ finished = NoRun
    /\ boot = Idle("serving")
    /\ health = Idle("idle")
    /\ retrying = FALSE
    /\ breaker = NewBreaker
    /\ now = 0
    /\ config = DefaultConfig
    /\ db_faults = TRUE
    /\ reply = NoReply
    /\ boot_log = NewBootLog(<< >>)
    /\ data_service = "unreliable"
    /\ calls = NoCalls
    /\ callers = NoCallers
    /\ http = NoHttp
    /\ sched = NoSched

NextFaults ==
    \/ \E g \in StaffGroups, d \in SubmitDates, today \in Todays :
         /\ SubmitRejects(d, today) \/ Cardinality(DOMAIN jobs) < EngineJobs
         /\ submit_schedule(g, d, today)
    \/ TaskStep
    \/ RetryStep
    \/ \E o \in ProbeOutcomes : check_health(o)
    \/ Tick

SpecFaults == InitFaults /\ [][NextFaults]_vars

\* ------------------------------------------------------------------------
\* Properties
\* ------------------------------------------------------------------------
\* The five transitions of the typed state machine
LegalTransitions ==
    { << "Pending", "Processing" >>,
      << "Processing", "Completed" >>,
      << "Processing", "Failed" >>,
      << "Processing", "WaitingForRetry" >>,
      << "WaitingForRetry", "Pending" >> }

\* C1: every change of a job's stored status, by any operation, is one of
\* the five legal transitions.
C1_OnlyLegalTransitions ==
    [][\A id \in DOMAIN jobs :
         (id \in DOMAIN jobs' /\ jobs'[id].status # jobs[id].status)
            => << jobs[id].status, jobs'[id].status >> \in LegalTransitions]_vars

Ran == finished.some

\* The rows of a job, as stored
RowsOf(job_id) == SelectSeqBy(shift_assignments, job_id)

\* C3: a roster fetch failing with CircuitOpen or DataServiceUnavailable
\* persists exactly Processing then WaitingForRetry, saves no assignment, and
\* process_job returns that same error.
C3_RetryableFetchError ==
    (Ran /\ finished.v.fetched \in {"CircuitOpen", "DataServiceUnavailable"})
       => /\ finished.v.persisted = << "Processing", "WaitingForRetry" >>
          /\ jobs[finished.v.job_id].status = "WaitingForRetry"
          /\ finished.v.saves = 0
          /\ finished.v.generated = "None"
          /\ finished.v.ret = finished.v.fetched

C3_Witness ==
    /\ Ran
    /\ finished.v.fetched = "CircuitOpen"
    /\ finished.v.ret = "CircuitOpen"
    /\ jobs[finished.v.job_id].status = "WaitingForRetry"

\* C4: a roster fetch failing with any other error persists exactly
\* Processing then Failed, saves no assignment, and process_job returns that
\* error.
C4_OtherFetchError ==
    (Ran /\ finished.v.fetched \notin {"None", "Ok", "CircuitOpen", "DataServiceUnavailable"})
       => /\ finished.v.persisted = << "Processing", "Failed" >>
          /\ jobs[finished.v.job_id].status = "Failed"
          /\ finished.v.saves = 0
          /\ finished.v.generated = "None"
          /\ finished.v.ret = finished.v.fetched

C4_Witness ==
    /\ Ran
    /\ finished.v.fetched = "DataService"
    /\ finished.v.ret = "DataService"
    /\ jobs[finished.v.job_id].status = "Failed"

\* C5: when gen_schedule returns NoValidShift the stored status becomes
\* Failed, save_assignments is not called in that run, and process_job
\* returns an Internal error.
C5_NoValidShiftFails ==
    (Ran /\ finished.v.generated = "NoValidShift")
       => /\ finished.v.persisted = << "Processing", "Failed" >>
          /\ jobs[finished.v.job_id].status = "Failed"
          /\ finished.v.saves = 0
          /\ finished.v.assignments = << >>
          /\ finished.v.ret = "Internal"

C5_Witness ==
    /\ Ran
    /\ finished.v.generated = "NoValidShift"
    /\ finished.v.ret = "Internal"
    /\ jobs[finished.v.job_id].status = "Failed"
    /\ RowsOf(finished.v.job_id) = << >>

ActiveOf(members) ==
    { members[k].id : k \in { i \in 1..Len(members) : members[i].status = "Active" } }

\* C7: the staff ids in the assignments a successful process_job saved are
\* exactly the Active members of the roster it fetched; with no Active
\* member the job is Completed with zero assignments.
C7_ActiveStaffOnly ==
    (Ran /\ finished.v.ret = "Ok")
       => LET saved == finished.v.assignments
          IN /\ finished.v.saves = 1
             /\ { saved[k].staff_id : k \in 1..Len(saved) } = ActiveOf(finished.v.members)
             /\ jobs[finished.v.job_id].status = "Completed"
             /\ ActiveOf(finished.v.members) = {} => saved = << >>

C7_Witness ==
    /\ Ran
    /\ finished.v.ret = "Ok"
    /\ finished.v.members = << Staff(1, "Active"), Staff(2, "Inactive") >>
    /\ { finished.v.assignments[k].staff_id :
           k \in 1..Len(finished.v.assignments) } = {1}
    /\ Len(RowsOf(finished.v.job_id)) >= PERIOD_DAYS

\* C8: submit_schedule answers BadRequest exactly when period_begin_date is
\* not a Monday or lies strictly before today; a rejected call creates no job
\* and spawns no task, and a Monday equal to today is accepted.
C8_RejectsExactlyBadDates ==
    [][\A g \in StaffGroups, d \in SubmitDates, today \in Todays :
         (reply'.op = "submit" /\ submit_schedule(g, d, today)) =>
            /\ (reply'.kind = "BadRequest") <=> (d % DAYS_PER_WEEK # 0 \/ d < today)
            /\ reply'.kind = "BadRequest" =>
                 /\ jobs' = jobs
                 /\ tasks' = tasks
                 /\ shift_assignments' = shift_assignments
            /\ (d % DAYS_PER_WEEK = 0 /\ d = today) => reply'.kind = "Ok"]_vars

\* A rejected submission is answered while an earlier job is in the store
C8_Witness ==
    /\ reply.op = "submit"
    /\ reply.kind = "BadRequest"
    /\ DOMAIN jobs # {}

\* C9: an accepted submit_schedule creates exactly one job, under an id no
\* existing job has, spawns exactly one task for it, not yet started, and
\* returns the stored record with status Pending.
C9_AcceptedSubmitCreatesOne ==
    [][\A g \in StaffGroups, d \in SubmitDates, today \in Todays :
         (reply'.op = "submit" /\ reply'.kind # "BadRequest"
            /\ submit_schedule(g, d, today)) =>
            LET new == DOMAIN jobs' \ DOMAIN jobs
            IN /\ reply'.kind = "Ok"
               /\ Cardinality(new) = 1
               /\ \A id \in DOMAIN jobs : id \in DOMAIN jobs' /\ jobs'[id] = jobs[id]
               /\ reply'.job.id \in new
               /\ reply'.job = jobs'[reply'.job.id]
               /\ reply'.job.status = "Pending"
               /\ reply'.job.staff_group_id = g
               /\ reply'.job.period_begin_date = d
               /\ \E t \in BagToSet(tasks') :
                    /\ t.job_id = reply'.job.id
                    /\ t.pc = "start"
                    /\ tasks' = tasks (+) SetToBag({t})
               /\ shift_assignments' = shift_assignments]_vars

\* The same request accepted twice: two jobs, the first already Failed in the
\* background, the second just answered as Pending
C9_Witness ==
    /\ reply.op = "submit"
    /\ reply.kind = "Ok"
    /\ reply.job.id = 2
    /\ reply.job.status = "Pending"
    /\ DOMAIN jobs = {1, 2}
    /\ jobs[1].status = "Failed"
    /\ jobs[1].staff_group_id = jobs[2].staff_group_id
    /\ jobs[1].period_begin_date = jobs[2].period_begin_date

\* C10: get_result answers NotFound for an unknown id, BadRequest for a job
\* that is not Completed, and the stored assignments only for a Completed
\* job; get_status and get_result leave jobs and assignments as they were.
C10_ResultOnlyWhenCompleted ==
    [][\A id \in QueryIds :
         /\ (reply'.op = "get_result" /\ get_result(id)) =>
              /\ jobs' = jobs
              /\ shift_assignments' = shift_assignments
              /\ tasks' = tasks
              /\ (reply'.kind = "NotFound") <=> (id \notin DOMAIN jobs)
              /\ (reply'.kind = "BadRequest") <=>
                    (id \in DOMAIN jobs /\ jobs[id].status # "Completed")
              /\ (reply'.kind = "Ok") <=>
                    (id \in DOMAIN jobs /\ jobs[id].status = "Completed")
              /\ reply'.kind = "Ok" =>
                    /\ Len(reply'.assignments) = Len(RowsOf(id))
                    /\ \A k \in 1..Len(reply'.assignments) :
                         \E r \in 1..Len(RowsOf(id)) :
                            /\ RowsOf(id)[r].staff_id = reply'.assignments[k].staff_id
                            /\ RowsOf(id)[r].date = reply'.assignments[k].date
                            /\ RowsOf(id)[r].shift_type = reply'.assignments[k].shift_type
         /\ (reply'.op = "get_status" /\ get_status(id)) =>
              /\ jobs' = jobs
              /\ shift_assignments' = shift_assignments
              /\ tasks' = tasks]_vars

\* get_result has answered with the rows of a Completed job
C10_Witness ==
    /\ reply.op = "get_result"
    /\ reply.kind = "Ok"
    /\ Len(reply.assignments) = PERIOD_DAYS
    /\ \E id \in DOMAIN jobs : jobs[id].status \in {"Failed", "WaitingForRetry"}

\* C11: once recover_stale_jobs has returned, every job that was stored
\* Processing when the process started has been reset and re-spawned: it is
\* no longer Processing, or a task of this boot is processing it.
C11_NoStaleProcessing ==
    boot.pc = "serving" =>
       \A id \in DOMAIN boot_log.at_boot :
          boot_log.at_boot[id] = "Processing" =>
             /\ id \in boot_log.respawned
             /\ jobs[id].status # "Processing" \/ TasksOf(id) >= 1

\* Recovery has just returned: the job found Processing is Pending again and
\* its new task has not started
C11_Witness ==
    /\ boot.pc = "serving"
    /\ \E id \in DOMAIN boot_log.at_boot :
         /\ boot_log.at_boot[id] = "Processing"
         /\ id \in boot_log.respawned
         /\ jobs[id].status = "Pending"
         /\ \E t \in Live : t.job_id = id /\ t.pc = "start"

C13_LostJobsRespawned ==
    (boot.pc = "serving" /\ health.pc = "idle") =>
       \A id \in DOMAIN boot_log.at_boot :
          boot_log.at_boot[id] \in {"Pending", "Processing", "WaitingForRetry"}
             => id \in boot_log.respawned

\* C14: a job stored as WaitingForRetry once the data service is healthy for
\* good is eventually reset, re-spawned and Completed
C14_WaitingJobEventuallyCompleted ==
    \A id \in JobIds :
       (/\ data_service = "healthy"
        /\ id \in DOMAIN jobs
        /\ jobs[id].status = "WaitingForRetry")
          ~> (id \in DOMAIN jobs /\ jobs[id].status = "Completed")

\* C15: from Closed the breaker opens exactly on the recorded failure that
\* makes failure_threshold failures in a row; below that it stays Closed and
\* can_execute says yes; a recorded success starts the count again
C15_OpensExactlyAtThreshold ==
    [][/\ (breaker.state = "Closed" /\ calls'.recorded = "failure")
            => breaker'.state = IF calls'.streak >= failure_threshold
                                THEN "Open" ELSE "Closed"
       /\ (breaker.state = "Closed" /\ breaker'.state # "Closed")
            => calls'.recorded = "failure"
       /\ (breaker.state = "Closed" /\ calls'.op = "can_execute")
            => (calls'.ret = "true" /\ breaker' = breaker)
       /\ calls'.recorded = "success"
            => (breaker'.state = "Closed" /\ breaker'.consecutive_failures = 0)
       /\ breaker'.state = "Closed" => calls'.streak < failure_threshold]_vars

\* The breaker has just opened on its failure_threshold-th failure in a row.
C15_Witness ==
    /\ breaker.state = "Open"
    /\ calls.op = "record_failure"
    /\ calls.streak = failure_threshold
    /\ breaker.consecutive_failures = failure_threshold

\* C16: on an Open breaker can_execute says no and changes nothing while less
\* than the cooldown has elapsed since last_failure_time, and from then on
\* says yes and moves the breaker to HalfOpen
C16_OpenUntilCooldown ==
    [][(calls'.op = "can_execute" /\ breaker.state = "Open")
          => /\ breaker.last_failure_time.some
             /\ IF now - breaker.last_failure_time.v < cooldown_secs
                THEN calls'.ret = "false" /\ breaker' = breaker
                ELSE /\ calls'.ret = "true"
                     /\ breaker' = [breaker EXCEPT !.state = "HalfOpen"]]_vars

\* can_execute has just admitted the trial call, the cooldown having elapsed
\* to the second.
C16_Witness ==
    /\ calls.op = "can_execute"
    /\ calls.ret = "true"
    /\ breaker.state = "HalfOpen"
    /\ now - breaker.last_failure_time.v = cooldown_secs

\* A call that the breaker let through: can_execute said yes, or the wrapped
\* client invoked the inner client
Admitted(c) ==
    \/ c.op = "can_execute" /\ c.ret = "true"
    \/ c.op = "get_resolved_members" /\ c.invoked

\* C17: in HalfOpen a recorded success closes the breaker with a zero counter,
\* a recorded failure opens it again stamped with the instant of that failure,
\* and an Open breaker admits a call only a full cooldown after the last
\* recorded failure
C17_HalfOpenTrial ==
    [][/\ (breaker.state = "HalfOpen" /\ calls'.op = "record_success")
            => /\ breaker'.state = "Closed"
               /\ breaker'.consecutive_failures = 0
       /\ (breaker.state = "HalfOpen" /\ calls'.op = "record_failure")
            => /\ breaker'.state = "Open"
               /\ breaker'.last_failure_time = Some(now)
       /\ (breaker.state = "Open" /\ Admitted(calls'))
            => now - calls.failed_at >= cooldown_secs]_vars

\* The trial call of a HalfOpen breaker has just failed, later than the
\* failure that had opened the breaker.
C17_Witness ==
    /\ calls.op = "record_failure"
    /\ calls.was = "HalfOpen"
    /\ breaker.state = "Open"
    /\ breaker.last_failure_time = Some(now)
    /\ now >= cooldown_secs

\* C18: force_close leaves any breaker Closed with a zero counter and no
\* stamp, and the wrapped call that comes right after it is delegated to the
\* inner client
C18_ForceCloseResets ==
    [][/\ calls'.op = "force_close"
            => /\ breaker'.state = "Closed"
               /\ breaker'.consecutive_failures = 0
               /\ ~breaker'.last_failure_time.some
       /\ (calls.op = "force_close" /\ calls'.op = "get_resolved_members")
            => (calls'.invoked /\ calls'.ret # "CircuitOpen")]_vars

\* force_close has just closed a breaker that was Open and still within its
\* cooldown.
C18_Witness ==
    /\ calls.op = "force_close"
    /\ calls.was = "Open"
    /\ now - calls.failed_at < cooldown_secs
    /\ breaker = NewBreaker

\* C19: once failure_threshold failures in a row have been recorded, a wrapped
\* call made less than the cooldown after the last of them returns
\* CircuitOpen, does not invoke the inner client and records nothing
C19_FastFailWithinCooldown ==
    [][(/\ calls'.op = "get_resolved_members"
        /\ calls.streak >= failure_threshold
        /\ now - calls.failed_at < cooldown_secs)
          => /\ calls'.ret = "CircuitOpen"
             /\ ~calls'.invoked
             /\ calls'.recorded = "none"
             /\ breaker' = breaker]_vars

\* A wrapped call has just been refused right after the failure_threshold-th
\* failure in a row of wrapped calls.
C19_Witness ==
    /\ calls.op = "get_resolved_members"
    /\ calls.ret = "CircuitOpen"
    /\ ~calls.invoked
    /\ calls.streak = failure_threshold
    /\ breaker.state = "Open"
    /\ breaker.consecutive_failures = failure_threshold

\* A run of retry_waiting_jobs holds its list of waiting jobs and has not
\* returned
SweepInFlight ==
    \E who \in Sweepers : SweepOf(who).pc \in {"retry_reset", "retry_respawn"}

C21_ProbeOnClosedKeepsBreaker ==
    [][(health.pc = "idle" /\ breaker.state = "Closed" /\ check_health("success"))
          => breaker' = breaker]_vars

\* C22: a health probe that fails (non-2xx status or transport error) raises
\* the failure counter by exactly one, moves the breaker state as one
\* record_failure does, and starts no retry sweep
C22_FailedProbeRecordsOnce ==
    [][(health.pc = "idle"
        /\ \E o \in ProbeOutcomes \ {"success"} : check_health(o))
          => /\ breaker'.consecutive_failures = breaker.consecutive_failures + 1
             /\ breaker'.last_failure_time = Some(now)
             /\ breaker'.state =
                  IF breaker.state = "Closed"
                     /\ breaker.consecutive_failures + 1 < failure_threshold
                  THEN "Closed" ELSE "Open"
             /\ health' = health
             /\ retrying' = retrying
             /\ tasks' = tasks
             /\ jobs' = jobs]_vars

\* Failed probes alone have opened the breaker: no job was ever submitted, so
\* no roster fetch has recorded anything.
C22_Witness ==
    /\ jobs = << >>
    /\ health.pc = "idle"
    /\ ~retrying
    /\ breaker.state = "Open"
    /\ breaker.consecutive_failures = failure_threshold

\* The health loop is inside the retry_waiting_jobs call of check_health
HealthSweeping == health.pc \in {"retry_find", "retry_reset", "retry_respawn"}

\* C23: sweeps started by the health loop never overlap: the latch is set
\* exactly while the sweep of check_health is in flight, a sweep starts only
\* with the latch clear and the loop idle, and the latch is clear again as
\* soon as the sweep has returned, Ok or Err
C23_HealthSweepsNeverOverlap ==
    [][/\ retrying' <=> HealthSweeping'
       /\ (~HealthSweeping /\ HealthSweeping')
            => (health.pc = "idle" /\ ~retrying /\ health'.pc = "retry_find")
       /\ (HealthSweeping /\ check_health("success")) => FALSE
       /\ (HealthSweeping /\ ~HealthSweeping')
            => (health'.pc = "idle" /\ ~retrying')]_vars

\* A sweep of the health loop holds its list of waiting jobs, latch set, and
\* is at a store operation that may fail.
C23_Witness ==
    /\ retrying
    /\ health.pc = "retry_reset"
    /\ health.list # << >>
    /\ db_faults

\* The attempts before attempt k all failed at transport level
TransportUpTo(outs, k) == \A j \in 1..(k - 1) : outs[j] = "transport"

\* C24: the first attempt that gets an HTTP response ends the call at that
\* attempt: a non-success status, an undecodable body or a body without data
\* returns DataService with no further attempt and no sleep after it; only
\* transport failures lead to another attempt
C24_ResponseEndsCall ==
    http.pc = "done" =>
       /\ \A k \in 1..MAX_RETRIES :
             (TransportUpTo(http.outs, k) /\ http.outs[k] # "transport")
                => /\ http.result.attempts = k
                   /\ Len(http.result.sleeps) = k - 1
                   /\ http.outs[k] \in {"status", "undecodable", "nodata"}
                        => (http.result.kind = "DataService" /\ http.result.data = << >>)
                   /\ http.outs[k] = "ok" => http.result.kind = "Ok"
       /\ TransportUpTo(http.outs, http.result.attempts)

\* The second attempt, made after a transport failure, got a non-success
\* status, and the third, which would have succeeded, was never made.
C24_Witness ==
    /\ http.pc = "done"
    /\ http.outs = << "transport", "status", "ok" >>
    /\ http.result.kind = "DataService"
    /\ http.result.attempts = 2

\* C25: the call ends after at most MAX_RETRIES = 3 attempts; three transport
\* failures return DataServiceUnavailable after sleeps of 100 ms and 200 ms
\* and none after the last attempt; a transport failure followed by a
\* successful response returns the data of that response
C25_ThreeAttemptsTwoSleeps ==
    http.pc = "done" =>
       /\ http.result.attempts \in 1..3
       /\ \E n \in 0..2 : http.result.sleeps = SubSeq(<< 100, 200 >>, 1, n)
       /\ (\A k \in 1..3 : http.outs[k] = "transport")
            => /\ http.result.kind = "DataServiceUnavailable"
               /\ http.result.attempts = 3
               /\ http.result.sleeps = << 100, 200 >>
       /\ \A k \in 2..3 :
             (TransportUpTo(http.outs, k) /\ http.outs[k] = "ok")
                => (http.result.kind = "Ok" /\ http.result.data = http.body)

\* All three attempts failed at transport level.
C25_Witness ==
    /\ http.pc = "done"
    /\ http.outs = << "transport", "transport", "transport" >>
    /\ http.result.kind = "DataServiceUnavailable"
    /\ http.result.sleeps = << 100, 200 >>

\* gen_schedule has returned Ok
SchedOk == sched.pc = "done" /\ sched.result.ok

\* The assignments of a schedule for one staff member on one date
Of(asg, staff_id, date) ==
    { k \in 1..Len(asg) : asg[k].staff_id = staff_id /\ asg[k].date = date }

\* Whether a schedule gives the staff member that shift on that date
Has(asg, staff_id, date, shift_type) ==
    \E k \in Of(asg, staff_id, date) : asg[k].shift_type = shift_type

\* C26: a schedule returned for n distinct staff ids has exactly n * 28
\* assignments, exactly one for each staff member on each of the 28 dates from
\* period_begin_date
C26_OneAssignmentPerStaffAndDate ==
    SchedOk =>
       /\ Len(sched.result.assignments) = Len(sched.staff_ids) * 28
       /\ \A i \in 1..Len(sched.staff_ids), day \in 0..27 :
             Cardinality(Of(sched.result.assignments, sched.staff_ids[i],
                            sched.period_begin_date + day)) = 1

\* A schedule has been returned for the largest staff list under the default
\* day-off and balance limits, and it contains days off.
C26_Witness ==
    /\ SchedOk
    /\ Len(sched.staff_ids) = MaxStaff
    /\ sched.cfg = [DefaultConfig EXCEPT !.no_morning_after_evening = FALSE]
    /\ Len(sched.result.assignments) = MaxStaff * 28
    /\ \E k \in 1..Len(sched.result.assignments) :
          sched.result.assignments[k].shift_type = "DayOff"

\* Number of DayOff assignments of one staff member in one 7-day week counted
\* from period_begin_date
DayOffsInWeek(asg, staff_id, period_begin_date, week) ==
    Cardinality({ d \in 0..(DAYS_PER_WEEK - 1) :
                    Has(asg, staff_id,
                        period_begin_date + week * DAYS_PER_WEEK + d, "DayOff") })

\* C27: in a returned schedule generated with both a minimum and a maximum
\* number of days off per week, every staff member has at least the minimum
\* and at most the maximum number of DayOff assignments in each of the four
\* weeks counted from period_begin_date
C27_WeeklyDayOffsWithinLimits ==
    (/\ SchedOk
     /\ sched.cfg.min_day_off_per_week.some
     /\ sched.cfg.max_day_off_per_week.some) =>
        \A i \in 1..Len(sched.staff_ids), week \in 0..3 :
           LET n == DayOffsInWeek(sched.result.assignments, sched.staff_ids[i],
                                  sched.period_begin_date, week)
           IN /\ n >= sched.cfg.min_day_off_per_week.v
              /\ n <= sched.cfg.max_day_off_per_week.v

\* A schedule has been returned for the largest staff list with one to three
\* days off per week, and some staff member has the minimum of one day off in
\* one week and the maximum of three in another.
C27_Witness ==
    /\ SchedOk
    /\ Len(sched.staff_ids) = MaxStaff
    /\ sched.cfg.min_day_off_per_week = Some(1)
    /\ sched.cfg.max_day_off_per_week = Some(MaxDayOffs)
    /\ \E i \in 1..MaxStaff, w1, w2 \in 0..3 :
          /\ DayOffsInWeek(sched.result.assignments, sched.staff_ids[i],
                           sched.period_begin_date, w1) = 1
          /\ DayOffsInWeek(sched.result.assignments, sched.staff_ids[i],
                           sched.period_begin_date, w2) = MaxDayOffs

\* C28: in a returned schedule generated with the NoMorningAfterEvening rule,
\* no staff member has Evening on day d and Morning on day d+1, for every d in
\* 0..26, week boundaries included
C28_NoMorningAfterEvening ==
    (SchedOk /\ sched.cfg.no_morning_after_evening) =>
        \A i \in 1..Len(sched.staff_ids), d \in 0..(PERIOD_DAYS - 2) :
           ~(/\ Has(sched.result.assignments, sched.staff_ids[i],
                    sched.period_begin_date + d, "Evening")
             /\ Has(sched.result.assignments, sched.staff_ids[i],
                    sched.period_begin_date + d + 1, "Morning"))

\* A schedule has been returned with the rule enabled and no balance limit in
\* which a staff member works Evening on day 13, the last day of the second
\* week, and Evening again on day 14, a day whose first option is Morning.
C28_Witness ==
    /\ SchedOk
    /\ sched.cfg.no_morning_after_evening
    /\ ~sched.cfg.max_daily_shift_diff.some
    /\ \E i \in 1..Len(sched.staff_ids) :
          /\ Has(sched.result.assignments, sched.staff_ids[i],
                 sched.period_begin_date + 2 * DAYS_PER_WEEK - 1, "Evening")
          /\ Has(sched.result.assignments, sched.staff_ids[i],
                 sched.period_begin_date + 2 * DAYS_PER_WEEK, "Evening")

\* Number of assignments of one shift type on one date across all staff
CountOn(asg, date, shift_type) ==
    Cardinality({ k \in 1..Len(asg) :
                    asg[k].date = date /\ asg[k].shift_type = shift_type })

\* C29: in a returned schedule generated with a DailyBalance(max_diff) rule,
\* on each of the 28 days the numbers of Morning and of Evening assignments
\* across all staff differ by at most max_diff
C29_DailyBalanceWithinLimit ==
    (SchedOk /\ sched.cfg.max_daily_shift_diff.some) =>
        \A day \in 0..(PERIOD_DAYS - 1) :
           abs_diff(CountOn(sched.result.assignments,
                            sched.period_begin_date + day, "Morning"),
                    CountOn(sched.result.assignments,
                            sched.period_begin_date + day, "Evening"))
              <= sched.cfg.max_daily_shift_diff.v

\* A schedule has been returned for the largest staff list with a balance
\* limit of 1: on one day two staff work Morning and one Evening, and on
\* another day the counts are equal with a staff member on a day off.
C29_Witness ==
    /\ SchedOk
    /\ Len(sched.staff_ids) = MaxStaff
    /\ sched.cfg.max_daily_shift_diff = Some(1)
    /\ \E d1, d2 \in 0..(PERIOD_DAYS - 1) :
          /\ CountOn(sched.result.assignments, sched.period_begin_date + d1, "Morning") = 2
          /\ CountOn(sched.result.assignments, sched.period_begin_date + d1, "Evening") = 1
          /\ CountOn(sched.result.assignments, sched.period_begin_date + d2, "Morning") = 1
          /\ CountOn(sched.result.assignments, sched.period_begin_date + d2, "Evening") = 1

\* Position of an id in a list of distinct ids
Pos(l, id) == CHOOSE k \in 1..Len(l) : l[k] = id

\* C30: the result of gen_schedule depends only on each staff member's
\* position in the list, not on the id values: a run over a list of the same
\* length with other id values, the same period_begin_date and the same rules
\* returns Ok exactly when the first run does, with the same date and shift at
\* every index for the staff member at the same position, or NoValidShift for
\* the same day and the staff member at the same position
C30_ShiftPatternDependsOnPosition ==
    sched.pc = "done" =>
       /\ sched.other.ok = sched.result.ok
       /\ sched.result.ok =>
             /\ Len(sched.other.assignments) = Len(sched.result.assignments)
             /\ \A k \in 1..Len(sched.result.assignments) :
                   LET a == sched.result.assignments[k]
                       b == sched.other.assignments[k]
                   IN /\ b.date = a.date
                      /\ b.shift_type = a.shift_type
                      /\ Pos(sched.other_ids, b.staff_id) = Pos(sched.staff_ids, a.staff_id)
       /\ ~sched.result.ok =>
             /\ sched.other.err.day = sched.result.err.day
             /\ Pos(sched.other_ids, sched.other.err.staff_id)
                   = Pos(sched.staff_ids, sched.result.err.staff_id)

\* A schedule has been returned under a balance limit for the largest staff
\* list, given in descending id order, and compared with the schedule of the
\* same list under other id values.
C30_Witness ==
    /\ sched.pc = "done"
    /\ Len(sched.staff_ids) = MaxStaff
    /\ sched.other_ids # sched.staff_ids
    /\ sched.staff_ids[1] > sched.staff_ids[2]
    /\ sched.result.ok
    /\ sched.other.ok
    /\ sched.cfg.max_daily_shift_diff.some

\* C31: with the default rule set (NoMorningAfterEvening, MaxDayOff(2),
\* MinDayOff(1), DailyBalance(1)) gen_schedule returns a schedule, never
\* NoValidShift, for every roster size
C31_DefaultRulesAlwaysSchedule ==
    (sched.pc = "done" /\ sched.cfg = DefaultConfig) => sched.result.ok

\* The context gen_schedule holds when it makes the k-th assignment of a
\* returned schedule, rebuilt from the assignments made before it
ContextAt(asg, k, n, period_begin_date) ==
    LET day == (k - 1) \div n
        week_begin == day - (day % DAYS_PER_WEEK)
        before == 1..(k - 1)
        mine == { j \in before : asg[j].staff_id = asg[k].staff_id }
        yesterday == { j \in mine : asg[j].date = period_begin_date + day - 1 }
    IN [ previous_shift |->
             IF yesterday = {} THEN None
             ELSE Some(asg[CHOOSE j \in yesterday : TRUE].shift_type),
         day_offs_this_week |->
             Cardinality({ j \in mine : /\ asg[j].date >= period_begin_date + week_begin
                                        /\ asg[j].shift_type = "DayOff" }),
         days_remaining_in_week |-> DAYS_PER_WEEK - 1 - (day % DAYS_PER_WEEK),
         morning_count |->
             Cardinality({ j \in before : /\ asg[j].date = period_begin_date + day
                                          /\ asg[j].shift_type = "Morning" }),
         evening_count |->
             Cardinality({ j \in before : /\ asg[j].date = period_begin_date + day
                                          /\ asg[j].shift_type = "Evening" }) ]

\* C32: in a returned schedule the assignments of each day follow the staff
\* list forwards on even days and backwards on odd days, and each staff member
\* holds the first candidate every rule accepted, Morning before Evening on
\* even days and Evening before Morning on odd days; a DayOff is held only
\* where both Morning and Evening were refused
C32_OrderAndFirstAcceptedCandidate ==
    SchedOk =>
       LET n == Len(sched.staff_ids)
           asg == sched.result.assignments
           rules == build_rules(sched.cfg)
       IN \A k \in 1..Len(asg) :
             LET day == (k - 1) \div n
                 pos == ((k - 1) % n) + 1
                 ctx == ContextAt(asg, k, n, sched.period_begin_date)
                 first == IF day % 2 = 0 THEN "Morning" ELSE "Evening"
                 second == IF day % 2 = 0 THEN "Evening" ELSE "Morning"
             IN /\ asg[k].date = sched.period_begin_date + day
                /\ asg[k].staff_id =
                      sched.staff_ids[IF day % 2 = 0 THEN pos ELSE n + 1 - pos]
                /\ AllRulesOk(rules, ctx, asg[k].shift_type)
                /\ asg[k].shift_type = second => ~AllRulesOk(rules, ctx, first)
                /\ asg[k].shift_type = "DayOff" =>
                      /\ ~AllRulesOk(rules, ctx, "Morning")
                      /\ ~AllRulesOk(rules, ctx, "Evening")

\* A schedule has been returned for the largest staff list under a balance
\* limit in which, on an odd day, the staff member visited first is the last
\* of the list, one staff member holds the second candidate Morning and one a
\* DayOff.
C32_Witness ==
    /\ SchedOk
    /\ Len(sched.staff_ids) = MaxStaff
    /\ sched.cfg.max_daily_shift_diff.some
    /\ \E day \in { d \in 0..(PERIOD_DAYS - 1) : d % 2 = 1 } :
          /\ sched.result.assignments[day * MaxStaff + 1].staff_id
                = sched.staff_ids[MaxStaff]
          /\ \E k \in (day * MaxStaff + 1)..(day * MaxStaff + MaxStaff) :
                sched.result.assignments[k].shift_type = "Morning"
          /\ \E k \in (day * MaxStaff + 1)..(day * MaxStaff + MaxStaff) :
                sched.result.assignments[k].shift_type = "DayOff"

\* The assignments gen_schedule had pushed when it returned, Ok or Err
AssignmentsMade ==
    DayLoop([ assignments |-> << >>,
              previous_shifts |-> [i \in 1..Len(sched.staff_ids) |-> None],
              weekly_day_offs |-> [i \in 1..Len(sched.staff_ids) |-> 0],
              morning_count |-> 0,
              evening_count |-> 0,
              err |-> None ],
            0, sched.staff_ids, sched.period_begin_date,
            build_rules(sched.cfg)).assignments

\* C33: gen_schedule returns NoValidShift{staff_id, day} exactly when a staff
\* member reached in processing order has none of the three candidates
\* accepted by all rules: every pair before the reported one received an
\* accepted shift, the reported pair is refused Morning, Evening and DayOff,
\* nothing after it was processed, and no assignment is returned with the error
C33_NoValidShiftAtFirstStuckPair ==
    sched.pc = "done" =>
       LET n == Len(sched.staff_ids)
           made == AssignmentsMade
           rules == build_rules(sched.cfg)
           accepted == \A k \in 1..Len(made) :
                          AllRulesOk(rules,
                                     ContextAt(made, k, n, sched.period_begin_date),
                                     made[k].shift_type)
       IN IF sched.result.ok
          THEN /\ Len(made) = n * PERIOD_DAYS
               /\ sched.result.assignments = made
               /\ accepted
          ELSE LET day == sched.result.err.day
                   idx == Pos(sched.staff_ids, sched.result.err.staff_id)
                   pos == IF day % 2 = 0 THEN idx ELSE n + 1 - idx
                   stuck == Append(made, [ staff_id |-> sched.result.err.staff_id,
                                           date |-> sched.period_begin_date + day,
                                           shift_type |-> "none" ])
                   ctx == ContextAt(stuck, Len(stuck), n, sched.period_begin_date)
               IN /\ sched.result.assignments = << >>
                  /\ day \in 0..(PERIOD_DAYS - 1)
                  /\ \E i \in 1..n : sched.staff_ids[i] = sched.result.err.staff_id
                  /\ Len(made) = day * n + pos - 1
                  /\ accepted
                  /\ \A c \in {"Morning", "Evening", "DayOff"} :
                        ~AllRulesOk(rules, ctx, c)

\* gen_schedule has returned NoValidShift under the default configuration for
\* the largest staff list, on a day after the first and for a staff member who
\* is not the last one visited that day, after it had pushed assignments.
C33_Witness ==
    /\ sched.pc = "done"
    /\ ~sched.result.ok
    /\ sched.cfg = DefaultConfig
    /\ Len(sched.staff_ids) = MaxStaff
    /\ sched.result.err.day = 5
    /\ sched.result.err.staff_id = sched.staff_ids[2]
    /\ Len(AssignmentsMade) = 5 * MaxStaff + 1

\* ------------------------------------------------------------------------
\* The breaker shared by concurrent callers and the health loop
\* ------------------------------------------------------------------------
\* Everything but the breaker, the clock, the callers and the health loop
SharedRest == << jobs, shift_assignments, tasks, boot, config, db_faults,
                boot_log, data_service, calls, http, sched >>

\* A caller outside a call; `found` is the breaker state its last call of
\* can_execute met, `ret` what its last call returned
IdleCaller == [pc |-> "idle", found |-> "Closed", ret |-> "none"]

InitShared ==
    /\ jobs = << >>
    /\ shift_assignments = << >>
    /\ tasks = EmptyBag
    /\ finished = NoRun
    /\ boot = Idle("serving")
    /\ health = Idle("idle")
    /\ retrying = FALSE
    /\ breaker = NewBreaker
    /\ now = 0
    /\ config = DefaultConfig
    /\ db_faults = FALSE
    /\ reply = NoReply
    /\ boot_log = NewBootLog(<< >>)
    /\ data_service = "unreliable"
    /\ calls = NoCalls
    /\ http = NoHttp
    /\ sched = NoSched
    /\ callers = [c \in 1..MaxCallers |-> IdleCaller]

\* get_resolved_members up to the inner call: lock, can_execute, unlock; a
\* refused call returns CircuitOpen at once
CallerEnter(c) ==
    /\ callers[c].pc = "idle"
    /\ LET ce == can_execute(breaker, now)
       IN /\ breaker' = ce.b
          /\ callers' = [callers EXCEPT ![c] =
                [ pc |-> IF ce.ok THEN "inflight" ELSE "idle",
                  found |-> breaker.state,
                  ret |-> IF ce.ok THEN "none" ELSE "CircuitOpen" ]]
    /\ UNCHANGED << now, health, retrying, reply, finished, SharedRest >>

\* get_resolved_members from the return of the inner call: lock, record the
\* outcome, unlock, return the inner result
CallerReturn(c, res) ==
    /\ callers[c].pc = "inflight"
    /\ res.kind # "Ok" => breaker.consecutive_failures < MaxStreak
    /\ breaker' = record_outcome(breaker, now, res)
    /\ callers' = [callers EXCEPT ![c] = [@ EXCEPT !.pc = "idle", !.ret = res.kind]]
    /\ UNCHANGED << now, health, retrying, reply, finished, SharedRest >>

\* Time passes.
SharedTick ==
    /\ now < MaxBreakerTime
    /\ now' = now + 1
    /\ UNCHANGED << breaker, callers, health, retrying, reply, finished, SharedRest >>

NextShared ==
    \/ \E c \in 1..MaxCallers : CallerEnter(c)
    \/ \E c \in 1..MaxCallers, res \in HttpResults : CallerReturn(c, res)
    \/ \E o \in ProbeOutcomes : check_health(o)
    \/ RetryFind("health")
    \/ SharedTick

SpecShared == InitShared /\ [][NextShared]_vars

\* A caller's call has just returned the result of the inner client
Returning(c) == callers[c].pc = "inflight" /\ callers'[c].pc = "idle"

\* C34: with several callers sharing the breaker, the breaker leaves Open only
\* by can_execute's cooldown transition to HalfOpen or by force_close: no
\* returning call moves it from Open to Closed
C34_OpenLeftOnlyByCooldownOrForceClose ==
    [][(breaker.state = "Open" /\ breaker'.state # "Open") =>
          \/ /\ breaker'.state = "HalfOpen"
             /\ \E c \in 1..MaxCallers : callers[c].pc = "idle" /\ callers'[c].pc = "inflight"
          \/ /\ breaker' = force_close(breaker)
             /\ callers' = callers]_vars

\* C35: whenever a process_job run has finished, with Ok or with Err, the
\* stored status of its job is no longer Processing, also when
\* save_assignments or a status update failed in the store during the run
C35_FinishedRunLeavesProcessing ==
    Ran => jobs[finished.v.job_id].status # "Processing"

\* A failure is recorded on the breaker in this step: a failed health probe or
\* the failed inner call of a returning caller
FailureRecorded ==
    \/ /\ health.pc = "idle"
       /\ \E o \in ProbeOutcomes \ {"success"} : check_health(o)
    \/ \E c \in 1..MaxCallers :
          /\ Returning(c)
          /\ callers'[c].ret # "Ok"

\* C36: while the breaker is Open, record_failure changes neither the state
\* nor last_failure_time, so the cooldown runs from the moment the breaker
\* opened
C36_FailureWhileOpenKeepsStamp ==
    [][(breaker.state = "Open" /\ FailureRecorded) =>
          /\ breaker'.state = "Open"
          /\ breaker'.last_failure_time = breaker.last_failure_time]_vars

\* A caller's call is admitted in this step and goes on to the inner client
Delegated(c) == callers[c].pc = "idle" /\ callers'[c].pc = "inflight"

\* C37: once the breaker is HalfOpen, the call that made it so is the only
\* one delegated to the inner client until a result has been recorded: a call
\* arriving while the breaker is HalfOpen is not delegated
C37_OneTrialWhileHalfOpen ==
    [][breaker.state = "HalfOpen" => \A c \in 1..MaxCallers : ~Delegated(c)]_vars

\* C38: a call delegated to the inner client records exactly one outcome on
\* the breaker when it returns: a success for Ok (counter 0, no stamp, Closed)
\* and one failure for every Err, DataService as well as
\* DataServiceUnavailable (counter up by one, stamp set to the present instant)
C38_DelegatedCallRecordsOneOutcome ==
    [][\A c \in 1..MaxCallers :
          Returning(c) =>
             IF callers'[c].ret = "Ok"
             THEN /\ breaker'.state = "Closed"
                  /\ breaker'.consecutive_failures = 0
                  /\ ~breaker'.last_failure_time.some
             ELSE /\ callers'[c].ret \in {"DataService", "DataServiceUnavailable"}
                  /\ breaker'.consecutive_failures = breaker.consecutive_failures + 1
                  /\ breaker'.last_failure_time = Some(now)
                  /\ breaker'.state # "HalfOpen"]_vars

\* A delegated call has returned a terminal DataService error while the other
\* caller was in flight, and that failure opened the breaker at the present
\* instant, after time had passed.
C38_Witness ==
    /\ callers[1].pc = "idle"
    /\ callers[1].ret = "DataService"
    /\ callers[2].pc = "inflight"
    /\ breaker.state = "Open"
    /\ breaker.consecutive_failures = failure_threshold
    /\ breaker.last_failure_time = Some(now)
    /\ now > 0

\* C39: in every reachable state of the breaker shared by the callers and the
\* health loop, a Closed breaker has fewer than failure_threshold consecutive
\* failures, and an Open or HalfOpen breaker has last_failure_time set
C39_BreakerStateInvariant ==
    /\ breaker.state = "Closed" => breaker.consecutive_failures < failure_threshold
    /\ breaker.state \in {"Open", "HalfOpen"} => breaker.last_failure_time.some

\* The breaker has been through HalfOpen with both callers admitted, was
\* closed by one result while the other call was still in flight, and stands
\* Closed one failure short of the threshold.
C39_Witness ==
    /\ breaker.state = "Closed"
    /\ breaker.consecutive_failures = failure_threshold - 1
    /\ breaker.last_failure_time.some
    /\ \E c \in 1..MaxCallers :
          /\ callers[c].found = "HalfOpen"
          /\ callers[c].pc = "idle"
          /\ callers[c].ret = "DataServiceUnavailable"

====
